---- MODULE Spec2Model ----
(***************************************************************************)
(* Extraction and bulk-processing pipeline of yt-transcript-dl-mcp:        *)
(* BulkProcessorService, YouTubeExtractorService, RateLimiterService and   *)
(* CacheService, modelled from the TypeScript sources.                     *)
(*                                                                         *)
(* Optional values (a field that is undefined in the source) are modelled  *)
(* as sequences of length 0 or 1: <<>> is undefined, <<x>> is the value x. *)
(***************************************************************************)
EXTENDS Integers, Sequences, FiniteSets, TLC

\* ------------------------------------------------------------------ bounds

\* Longest videoIds list handed to processBulk.
MaxLen == 3
\* Largest pool size (concurrency) handed to processBulk.
MaxConcurrency == 2
\* Largest retryAttempts handed to processBulk.
MaxBulkRetry == 2

\* Number of execute() calls made on the rate limiter.
MaxCalls == 3
\* Largest maxRequests the rate limiter is configured with: fewer than the
\* calls made, so that the quota and the pool can fill up.
MaxRequests == MaxCalls - 1
\* windowMs of the rate limiter, in clock ticks, and delayAfterLimit, which
\* is shorter than the window as in the defaults (1000 ms of 60000 ms).
WindowTicks == 2
DelayTicks == WindowTicks - 1
\* Last clock tick at which a new call arrives: the first tick of the
\* second window.
MaxTime == WindowTicks
\* How often updateOptions is called.
MaxUpdates == 1

\* ------------------------------------------------------------- video ids

\* /^[a-zA-Z0-9_-]{11}$/ : the length the pattern demands.
VideoIdLen == 11

IdChars ==
  { "a","b","c","d","e","f","g","h","i","j","k","l","m","n","o","p","q","r","s",
    "t","u","v","w","x","y","z","A","B","C","D","E","F","G","H","I","J","K","L",
    "M","N","O","P","Q","R","S","T","U","V","W","X","Y","Z","0","1","2","3","4",
    "5","6","7","8","9","_","-" }

\* Video ids are sequences of characters.
VidA == << "a", "a", "a", "a", "a", "a", "a", "a", "a", "a", "a" >>
VidB == << "B", "B", "B", "B", "B", "B", "B", "B", "B", "B", "B" >>
VidC == << "_", "_", "_", "_", "_", "_", "_", "_", "_", "_", "_" >>

\* ------------------------------------------------------------ error codes

ErrorCodes ==
  { "INVALID_VIDEO_ID", "VIDEO_NOT_FOUND", "PRIVATE_VIDEO", "DELETED_VIDEO",
    "AGE_RESTRICTED", "TRANSCRIPT_NOT_AVAILABLE", "TIMEOUT", "NETWORK_ERROR",
    "UNKNOWN" }

\* The message each TranscriptError is constructed with.
ErrorMessage(code) ==
  CASE code = "INVALID_VIDEO_ID"         -> "Invalid video ID format"
    [] code = "VIDEO_NOT_FOUND"          -> "Video not found"
    [] code = "PRIVATE_VIDEO"            -> "Video is private"
    [] code = "DELETED_VIDEO"            -> "Video not available"
    [] code = "AGE_RESTRICTED"           -> "Video is age restricted"
    [] code = "TRANSCRIPT_NOT_AVAILABLE" -> "No transcripts available for this video"
    [] code = "TIMEOUT"                  -> "Request timeout"
    [] code = "NETWORK_ERROR"            -> "Network error"
    [] code = "UNKNOWN"                  -> "Failed to extract transcript"
    [] OTHER                             -> "Processing failed"

TranscriptError(code) == [code |-> code, message |-> ErrorMessage(code)]

\* new Error('Processing failed'): not a TranscriptError, it carries no code.
ProcessingFailed == [code |-> "", message |-> "Processing failed"]

\* `ttl = 3600000`, `language: string = 'en'`: an option or argument left
\* out takes its default.
OrDefault(arg, default) == IF arg = << >> THEN default ELSE arg[1]

\* A quotient of two numbers, kept exact as numerator and denominator.
Quotient(n, d) == [num |-> n, den |-> d]

\* ------------------------------------------------------------------ p-limit

\* pLimit(concurrency): a pool with activeCount running and a FIFO queue.
pLimit(concurrency) ==
  [concurrency |-> concurrency, activeCount |-> 0, queue |-> <<>>]

\* limit(fn): fn joins the queue.
PLEnqueue(l, x) == [l EXCEPT !.queue = Append(@, x)]

\* A pool that admits one function too many.
PLCanStartOffByOne(l) == l.activeCount <= l.concurrency /\ Len(l.queue) > 0

\* The pool starts queued functions while activeCount < concurrency.
PLCanStart(l) == l.activeCount < l.concurrency /\ Len(l.queue) > 0

PLHead(l) == Head(l.queue)

PLStart(l) == [l EXCEPT !.activeCount = @ + 1, !.queue = Tail(@)]

\* A pool that never takes a slot back.
PLReleaseLeaks(l) == l

\* next(): a settled function gives its slot back.
PLRelease(l) == [l EXCEPT !.activeCount = @ - 1]

\* ------------------------------------------------------------------ state

VARIABLES
  \* BulkProcessorService.processBulk
  bulkPc,          \* "idle", "running", "resolved", "rejected"
  bulkOpts,        \* the options of the run: videoIds, concurrency, retryAttempts, onProgress
  uniqueVideoIds,  \* [...new Set(videoIds)]
  limit,           \* pLimit(concurrency) of the run
  task,            \* per unique video id: the state of its pool function
  results,         \* results: BulkProcessResult[]
  progress,        \* progress: BulkProgress
  snapshots,       \* the objects onProgress was invoked with, in invocation order
  \* RateLimiterService
  now,             \* Date.now(), in clock ticks
  rl,              \* the service: options, requestCounts, the pLimit pools made for
                   \* this.limiter (the last one is current), the cleanup interval,
                   \* and the execute() calls made on it
  \* YouTubeExtractorService
  exConfig,        \* this.config: retryAttempts, retryDelay
  ex,              \* the extractTranscript calls made on the service
  cache,           \* this.cache: the LRUCache of the CacheService
  returned,        \* the extractTranscript call the latest step settled, and how
  \* A method called on its own
  directCall,      \* the method a caller invoked last and its arguments
  directResult,    \* what that invocation returned
  cacheUse,        \* the keys the CacheService holds, least recently set or
                   \* fetched first, each with the time it was set and the time
                   \* it was last set or found by get or has
  \* YouTubeTranscriptService
  transcriptCache, \* this.cache: the Cache around a NodeCache
  getCalls,        \* the getTranscript calls made on the service by its callers
  bulkCall,        \* the getBulkTranscripts call made on the service
  fetcherCalls,    \* the calls YoutubeTranscript.fetchTranscript has received
  \* HTTPTransport
  httpConfig,      \* this.config.rateLimit: none, or windowMs and max
  requestTimestamps, \* this.requestTimestamps
  httpLog,         \* the requests the middleware has handled: when, and
                   \* whether it called next() or answered 429
  \* MCPServer
  transports,      \* this.transports, in insertion order: name and whether the
                   \* transport has been started (isConnected / server.listening)
  stdinPiped,      \* process.stdin is there and is no TTY
  activeTransport, \* this.activeTransport: none, or the name of a transport
  emitted,         \* the events the server has emitted, in order
  failovers        \* the failover() calls made, each with its position

bulkVars ==
  << bulkPc, bulkOpts, uniqueVideoIds, limit, task, results, progress, snapshots >>

rlVars == << now, rl >>

exVars == << exConfig, ex, cache, returned >>

directVars == << directCall, directResult, cacheUse >>

tsVars == << transcriptCache, getCalls, bulkCall, fetcherCalls >>

httpVars == << httpConfig, requestTimestamps, httpLog >>

mcpVars == << transports, stdinPiped, activeTransport, emitted, failovers >>

trVars == << httpVars, mcpVars >>

vars == << bulkVars, rlVars, exVars, directVars, tsVars, trVars >>

\* No method has been called on its own yet.
NoCall == [method |-> ""]

InitDirectIdle ==
  /\ directCall = NoCall
  /\ directResult = << >>
  /\ cacheUse = << >>

\* ------------------------------------------------------- RateLimiterService

\* requestCounts.get(window) || 0
CountOf(requestCounts, window) ==
  IF window \in DOMAIN requestCounts THEN requestCounts[window] ELSE 0

\* requestCounts.set(window, n)
SetCount(requestCounts, window, n) ==
  [w \in DOMAIN requestCounts \cup {window} |->
     IF w = window THEN n ELSE requestCounts[w]]

\* Math.floor(now / this.options.windowMs)
WindowOf(t, options) == t \div options.windowMs

\* The check at the head of execute (lines 44-50).
AtLimit(requestCounts, options, t) ==
  CountOf(requestCounts, WindowOf(t, options)) >= options.maxRequests

\* An execute() call: not made yet.  wakeAt is the tick at which the delay
\* of a held-back call ends (0: not held back), pool the pLimit pool it is in.
NewCall == [pc |-> "new", wakeAt |-> 0, pool |-> 0]

\* No call has settled yet.
NoSettlement == [call |-> 0, fnResult |-> "", result |-> ""]

\* new RateLimiterService(options)
RateLimiter(options) ==
  [options       |-> options,
   requestCounts |-> << >>,
   limiters      |-> << pLimit(options.maxRequests) >>,
   intervalMs    |-> options.windowMs,
   cleanupAt     |-> options.windowMs,
   updates       |-> 0,
   calls         |-> [c \in 1..MaxCalls |-> NewCall],
   \* the ticks, oldest first, at which operations were started during the
   \* last windowMs
   recentStarts  |-> << >>,
   \* the latest settlement: the call, what its operation settled with and
   \* what the promise of execute settled with
   settled       |-> NoSettlement]

\* `return this.limiter(async () => ...)`: the call joins the current pool.
RLEnqueue(st, c) ==
  LET k == Len(st.limiters)
  IN [st EXCEPT !.limiters[k] = PLEnqueue(@, c),
                !.calls[c].pc = "queued",
                !.calls[c].pool = k]

\* execute(fn) up to its first suspension (lines 43-55).
RLExecute(st, c, t) ==
  IF AtLimit(st.requestCounts, st.options, t)
    THEN [st EXCEPT !.calls[c].pc = "delayed",
                    !.calls[c].wakeAt = t + st.options.delayAfterLimit]
    ELSE RLEnqueue(st, c)

\* Pool k runs its oldest queued function: the request count of the current
\* window goes up and fn is called (lines 56-61).
RLStartHead(st, k, t) ==
  LET c == PLHead(st.limiters[k])
      w == WindowOf(t, st.options)
  IN [st EXCEPT !.limiters[k] = PLStart(@),
                !.requestCounts = SetCount(@, w, CountOf(@, w) + 1),
                !.calls[c].pc = "running",
                !.recentStarts = Append(@, t)]

\* `return await fn()` and `throw error` (lines 60-65): what execute settles
\* with, given what fn settled with.
SettlesWith(fnResult) == fnResult

\* The operation of call c settles: execute settles with it, the pool takes
\* the slot back and runs its next queued function.
RLFinish(st, c, fnResult, t) ==
  LET k   == st.calls[c].pool
      st1 == [st EXCEPT !.limiters[k] = PLRelease(@),
                        !.calls[c].pc = "settled",
                        !.calls[c].pool = 0,
                        !.settled = [call |-> c, fnResult |-> fnResult,
                                     result |-> SettlesWith(fnResult)]]
  IN IF PLCanStart(st1.limiters[k]) THEN RLStartHead(st1, k, t) ELSE st1

\* cleanupOldCounts (lines 112-121), and the interval is armed again.
RLCleanup(st, t) ==
  LET currentWindow == WindowOf(t, st.options)
  IN [st EXCEPT !.requestCounts =
                   [w \in { x \in DOMAIN @ : ~(x < currentWindow - 1) } |-> @[w]],
                !.cleanupAt = @ + st.intervalMs]

\* updateOptions({maxRequests}) (lines 133-137): a new pool replaces
\* this.limiter; the functions of the old pool stay with the old pool.
RLUpdateOptions(st, maxRequests) ==
  [st EXCEPT !.options.maxRequests = maxRequests,
             !.limiters = Append(@, pLimit(maxRequests)),
             !.updates = @ + 1]

\* clearPending (lines 142-145): the queue of the current pool is discarded;
\* the promises of the discarded calls never settle.
RLClearPending(st) ==
  LET k == Len(st.limiters)
      q == st.limiters[k].queue
  IN [st EXCEPT !.limiters[k].queue = << >>,
                !.calls = [c \in DOMAIN @ |->
                             IF \E i \in 1..Len(q) : q[i] = c
                               THEN [@[c] EXCEPT !.pc = "dropped", !.pool = 0]
                               ELSE @[c]]]

\* A pool has a free slot and a queued function: p-limit starts it before
\* anything else runs.
Startable(st) == { k \in 1..Len(st.limiters) : PLCanStart(st.limiters[k]) }

\* A delay of execute has run out.
DueCalls(st, t) ==
  { c \in DOMAIN st.calls : st.calls[c].pc = "delayed" /\ st.calls[c].wakeAt <= t }

Delayed(st) == { c \in DOMAIN st.calls : st.calls[c].pc = "delayed" }

RECURSIVE DropWhileOld(_, _)
DropWhileOld(starts, oldest) ==
  IF starts # << >> /\ Head(starts) < oldest
    THEN DropWhileOld(Tail(starts), oldest) ELSE starts

\* The clock reaches t: the starts that lie a full window back are forgotten.
RLAdvance(st, t) ==
  [st EXCEPT !.recentStarts = DropWhileOld(@, t - st.options.windowMs + 1)]

InitLimiterIdle ==
  /\ now = 0
  /\ rl = RateLimiter([maxRequests |-> 1, windowMs |-> WindowTicks,
                       delayAfterLimit |-> DelayTicks])

\* ------------------------------------------------------------- CacheService

\* `ttl: ttl * 1000`: the CacheService option is in seconds, the LRUCache
\* option in milliseconds.
MsPerSecond == 1000

\* The largest maxSize option the model configures.
MaxCacheSize == 2

\* `ttl = 3600000, // 1 hour default` and `maxSize = 100`
DefaultTtl == 3600000
DefaultMaxSize == 100

\* new CacheService({ttl, maxSize}): the LRUCache it holds.  entries are the
\* cached items, least recently used first; each has the key, the value and
\* the time its age counts from.  ttl is the option as the constructor takes
\* it; the LRUCache is given ttl * 1000, a product that IsStale compares
\* with without forming it, since for the default it is beyond the integers
\* of the model checker.
CacheService(options) ==
  [max     |-> OrDefault(options.maxSize, DefaultMaxSize),
   ttl     |-> OrDefault(options.ttl, DefaultTtl),
   entries |-> << >>]

\* The ttl the LRUCache is given: `ttl: ttl * 1000`.
TtlMs(c) == c.ttl * MsPerSecond

\* ms >= seconds * 1000 and ms > seconds * 1000.
AtLeastSeconds(ms, seconds) == ms \div MsPerSecond >= seconds
MoreThanSeconds(ms, seconds) == (ms - 1) \div MsPerSecond >= seconds

\* A language option that JavaScript takes for true: a non-empty string.
Truthy(lang) == lang # << >> /\ lang[1] # << >>

\* A key that leaves the language out.
generateKeyWithoutLang(videoId, lang) == videoId

\* generateKey: `lang ? videoId:lang : videoId`.
generateKey(videoId, lang) ==
  IF Truthy(lang) THEN videoId \o << ":" >> \o lang[1] ELSE videoId

\* The position of the key in the entries, 0 when it has none.
IndexOfKey(entries, key) ==
  IF \E i \in 1..Len(entries) : entries[i].key = key
    THEN CHOOSE i \in 1..Len(entries) : entries[i].key = key
    ELSE 0

RemoveAt(s, i) == SubSeq(s, 1, i - 1) \o SubSeq(s, i + 1, Len(s))

\* An entry that is stale as soon as its age reaches the ttl.
IsStaleAtTtl(c, e, t) == c.ttl # 0 /\ AtLeastSeconds(t - e.start, c.ttl)

\* lru-cache: an entry is stale once it is older than the ttl (0: no ttl).
IsStale(c, e, t) == c.ttl # 0 /\ MoreThanSeconds(t - e.start, c.ttl)

\* A get that leaves the entry it finds at its place in the order of use.
LRUGetKeepsPlace(c, key, t) ==
  LET i == IndexOfKey(c.entries, key)
  IN IF i = 0
       THEN [value |-> << >>, cache |-> c]
       ELSE IF IsStale(c, c.entries[i], t)
         THEN [value |-> << >>,
               cache |-> [c EXCEPT !.entries = RemoveAt(@, i)]]
         ELSE [value |-> << c.entries[i].value >>,
               cache |-> [c EXCEPT !.entries[i].start = t]]

\* this.cache.get(key) with updateAgeOnGet: a stale entry is deleted and
\* undefined returned; a live one becomes the most recently used and its
\* age starts again.
LRUGet(c, key, t) ==
  LET i == IndexOfKey(c.entries, key)
  IN IF i = 0
       THEN [value |-> << >>, cache |-> c]
       ELSE IF IsStale(c, c.entries[i], t)
         THEN [value |-> << >>,
               cache |-> [c EXCEPT !.entries = RemoveAt(@, i)]]
         ELSE [value |-> << c.entries[i].value >>,
               cache |-> [c EXCEPT !.entries =
                            Append(RemoveAt(@, i),
                                   [c.entries[i] EXCEPT !.start = t])]]

\* A cache that never evicts.
LRUSetUnbounded(c, key, value, t) ==
  LET i    == IndexOfKey(c.entries, key)
      item == [key |-> key, value |-> value, start |-> t]
  IN IF i # 0
       THEN [c EXCEPT !.entries = Append(RemoveAt(@, i), item)]
       ELSE [c EXCEPT !.entries = Append(@, item)]

\* this.cache.set(key, value): the key becomes the most recently used; a new
\* key in a full cache evicts the least recently used entry.
LRUSet(c, key, value, t) ==
  LET i    == IndexOfKey(c.entries, key)
      item == [key |-> key, value |-> value, start |-> t]
  IN IF i # 0
       THEN [c EXCEPT !.entries = Append(RemoveAt(@, i), item)]
       ELSE IF Len(c.entries) >= c.max
         THEN [c EXCEPT !.entries = Append(Tail(@), item)]
         ELSE [c EXCEPT !.entries = Append(@, item)]

\* this.cache.has(key) with updateAgeOnHas: false for a stale entry, which
\* stays where it is; the age of a live one starts again, its place in the
\* order of use stays.
LRUHas(c, key, t) ==
  LET i == IndexOfKey(c.entries, key)
  IN IF i = 0 \/ IsStale(c, c.entries[i], t)
       THEN [value |-> FALSE, cache |-> c]
       ELSE [value |-> TRUE,
             cache |-> [c EXCEPT !.entries[i].start = t]]

\* this.cache.delete(key)
LRUDelete(c, key) ==
  LET i == IndexOfKey(c.entries, key)
  IN IF i = 0
       THEN [value |-> FALSE, cache |-> c]
       ELSE [value |-> TRUE, cache |-> [c EXCEPT !.entries = RemoveAt(@, i)]]

\* this.cache.clear()
LRUClear(c) == [c EXCEPT !.entries = << >>]

\* CacheService.get(videoId, lang)
CacheGet(c, videoId, lang, t) == LRUGet(c, generateKey(videoId, lang), t)

\* CacheService.has(videoId, lang)
CacheHas(c, videoId, lang, t) == LRUHas(c, generateKey(videoId, lang), t)

\* CacheService.delete(videoId, lang)
CacheDelete(c, videoId, lang) == LRUDelete(c, generateKey(videoId, lang))

\* CacheService.clear()
CacheClear(c) == LRUClear(c)

\* CacheService.set(videoId, transcript, lang)
CacheSet(c, videoId, transcript, lang, t) ==
  LRUSet(c, generateKey(videoId, lang), transcript, t)

\* -------------------------------------------------- YouTubeExtractorService

\* The largest retryAttempts the model configures.
MaxRetry == 3
\* Largest retryDelay of the extractor, in clock ticks.
MaxRetryDelay == 2

\* isValidVideoId: /^[a-zA-Z0-9_-]{11}$/
isValidVideoId(videoId) ==
  Len(videoId) = VideoIdLen /\ \A i \in 1..Len(videoId) : videoId[i] \in IdChars

\* A video id the pattern rejects.
VidShort == << "a", "b", "c" >>

\* Language codes are sequences of characters.
LangEn   == << "e", "n" >>
LangEnUS == << "e", "n", "-", "U", "S" >>
LangFr   == << "f", "r" >>
LangDe   == << "d", "e" >>

\* String.prototype.startsWith
StartsWith(s, prefix) ==
  Len(prefix) <= Len(s) /\ SubSeq(s, 1, Len(prefix)) = prefix

\* tracks.find(...): the first of the tracks at the positions found.
First(tracks, found) ==
  tracks[CHOOSE i \in found : \A j \in found : i <= j]

\* A selector that leaves out the exact match and goes by prefix at once.
selectCaptionTrackNoExact(tracks, lang) ==
  LET at      == 1..Len(tracks)
      partial == { i \in at : StartsWith(tracks[i].languageCode, lang[1]) }
      manual  == { i \in at : tracks[i].kind # "asr" }
  IN IF Len(tracks) = 0 THEN << >>
     ELSE IF Truthy(lang) /\ partial # {} THEN << First(tracks, partial) >>
     ELSE IF manual # {} THEN << First(tracks, manual) >>
     ELSE << tracks[1] >>

\* A selector that gives up when the language asked for has no track.
selectCaptionTrackStrict(tracks, lang) ==
  LET at      == 1..Len(tracks)
      exact   == { i \in at : tracks[i].languageCode = lang[1] }
      partial == { i \in at : StartsWith(tracks[i].languageCode, lang[1]) }
      manual  == { i \in at : tracks[i].kind # "asr" }
  IN IF Len(tracks) = 0 THEN << >>
     ELSE IF Truthy(lang) /\ exact # {} THEN << First(tracks, exact) >>
     ELSE IF Truthy(lang) /\ partial # {} THEN << First(tracks, partial) >>
     ELSE IF Truthy(lang) THEN << >>
     ELSE IF manual # {} THEN << First(tracks, manual) >>
     ELSE << tracks[1] >>

\* selectCaptionTrack (lines 263-282); << >> is null.
selectCaptionTrack(tracks, lang) ==
  LET at      == 1..Len(tracks)
      exact   == { i \in at : tracks[i].languageCode = lang[1] }
      partial == { i \in at : StartsWith(tracks[i].languageCode, lang[1]) }
      manual  == { i \in at : tracks[i].kind # "asr" }
  IN IF Len(tracks) = 0 THEN << >>
     ELSE IF Truthy(lang) /\ exact # {} THEN << First(tracks, exact) >>
     ELSE IF Truthy(lang) /\ partial # {} THEN << First(tracks, partial) >>
     ELSE IF manual # {} THEN << First(tracks, manual) >>
     ELSE << tracks[1] >>

\* The caption tracks of a watch page that has captions.
PageTracks ==
  << [languageCode |-> LangEnUS, kind |-> "asr"],
     [languageCode |-> LangFr,   kind |-> ""] >>

\* What the GET of the watch page can come back with: an axios error, or a
\* page with no player response, with a playability status that
\* checkVideoAvailability refuses, with no caption tracks, or with PageTracks.
PageResponses ==
  { "http404", "timeout", "networkError", "noPlayerResponse", "UNPLAYABLE",
    "LOGIN_REQUIRED", "ERROR", "ageGate", "noCaptions", "ok" }

\* The error performExtraction throws for a page response (lines 124-144,
\* 160-176, 205-224); << >> when it goes on to the caption tracks.
PageError(response) ==
  CASE response = "http404"          -> << TranscriptError("VIDEO_NOT_FOUND") >>
    [] response = "timeout"          -> << TranscriptError("TIMEOUT") >>
    [] response = "networkError"     -> << TranscriptError("NETWORK_ERROR") >>
    [] response = "noPlayerResponse" -> << TranscriptError("UNKNOWN") >>
    [] response = "UNPLAYABLE"       ->
         << [code |-> "PRIVATE_VIDEO", message |-> "Video is unplayable"] >>
    [] response = "LOGIN_REQUIRED"   -> << TranscriptError("PRIVATE_VIDEO") >>
    [] response = "ERROR"            -> << TranscriptError("DELETED_VIDEO") >>
    [] response = "ageGate"          -> << TranscriptError("AGE_RESTRICTED") >>
    [] response = "noCaptions"       -> << TranscriptError("TRANSCRIPT_NOT_AVAILABLE") >>
    [] OTHER                         -> << >>

\* What the GET of the caption track can come back with.
SegmentResponses == { "http404", "timeout", "networkError", "noEvents", "ok" }

\* The error performExtraction throws for a caption response (lines 160-176,
\* 291-296); << >> when the response has events.
SegmentError(response) ==
  CASE response = "http404"      -> << TranscriptError("VIDEO_NOT_FOUND") >>
    [] response = "timeout"      -> << TranscriptError("TIMEOUT") >>
    [] response = "networkError" -> << TranscriptError("NETWORK_ERROR") >>
    [] response = "noEvents"     -> << TranscriptError("UNKNOWN") >>
    [] OTHER                     -> << >>

\* The segments of a caption response that has events.
Segments == << [text |-> "hello", start |-> 0, duration |-> 1] >>

\* The VideoTranscript performExtraction returns (lines 149-158).
VideoTranscript(videoId, track, segments, t) ==
  [videoId         |-> videoId,
   language        |-> track.languageCode,
   isAutoGenerated |-> (track.kind = "asr"),
   segments        |-> segments,
   fetchedAt       |-> t]

\* new TranscriptError('Extraction failed after retries', ErrorCode.UNKNOWN)
ExtractionFailedAfterRetries ==
  [code |-> "UNKNOWN", message |-> "Extraction failed after retries"]

\* `if (cached)` (line 74).
CacheHitNever(cached) == FALSE

CacheHit(cached) == cached # << >>

\* The loop of extractWithRetry goes on to another attempt (lines 96, 104).
AnotherAttemptNever(attempt, retryAttempts) == FALSE

AnotherAttempt(attempt, retryAttempts) == attempt < retryAttempts

\* `retryAttempts: config.retryAttempts || 3` (line 28).
DefaultRetryAttempts == 3

\* The constructor's this.config (lines 25-31): the defaults, then
\* `...config` puts every option the caller gave over them, a 0 included.
ExtractorConfig(config) ==
  [retryAttempts |-> IF config.retryAttempts = << >>
                       THEN DefaultRetryAttempts ELSE config.retryAttempts[1],
   retryDelay    |-> config.retryDelay]

\* An extractTranscript call: not made yet.  attempt is the attempt of
\* extractWithRetry the call is in, pageFetches and segmentFetches the GETs
\* it has issued, track the caption track its current attempt selected,
\* wakeAt the tick its retry delay ends.
NewExtraction ==
  [pc |-> "new", videoId |-> << >>, lang |-> << >>, attempt |-> 0,
   pageFetches |-> 0, segmentFetches |-> 0, lastError |-> << >>,
   track |-> << >>, wakeAt |-> 0]

\* A call that has settled: its frame is gone.
Gone(pc) == [NewExtraction EXCEPT !.pc = pc]

\* The step settled no call.
NoReturn ==
  [call |-> 0, videoId |-> << >>, lang |-> << >>, attempt |-> 0,
   pageFetches |-> 0, segmentFetches |-> 0, lastError |-> << >>,
   result |-> << >>, error |-> << >>]

\* Call c, in state e, settles: with a value (result) or an error.
Return(c, e, result, error) ==
  [call |-> c, videoId |-> e.videoId, lang |-> e.lang, attempt |-> e.attempt,
   pageFetches |-> e.pageFetches, segmentFetches |-> e.segmentFetches,
   lastError |-> e.lastError, result |-> result, error |-> error]

InitExtractorIdle ==
  /\ exConfig = ExtractorConfig([retryAttempts |-> << 1 >>,
                                 retryDelay |-> 1])
  /\ ex = [c \in 1..MaxCalls |-> NewExtraction]
  /\ cache = CacheService([ttl |-> << 1 >>, maxSize |-> << 1 >>])
  /\ returned = NoReturn

\* extractWithRetry up to its first suspension (lines 93-99): the first
\* attempt issues the GET of the watch page; with no attempt to make the
\* loop is skipped and the function throws.
extractWithRetry(e, config) ==
  IF 1 <= config.retryAttempts
    THEN [e EXCEPT !.pc = "page", !.attempt = 1, !.pageFetches = @ + 1]
    ELSE [e EXCEPT !.pc = "throwing"]

\* The limiter went from st0 to st1: the calls whose function it started
\* begin extractWithRetry.
BeginStarted(exs, st0, st1, config) ==
  [c \in DOMAIN exs |->
     IF /\ exs[c].pc = "waiting"
        /\ st0.calls[c].pc # "running"
        /\ st1.calls[c].pc = "running"
       THEN extractWithRetry(exs[c], config) ELSE exs[c]]

\* An extractTranscript that looks into the cache before it validates the id.
extractTranscriptCacheFirst(st, exs, cch, c, videoId, lang, t) ==
  LET e      == [NewExtraction EXCEPT !.videoId = videoId, !.lang = lang]
      cached == CacheGet(cch, videoId, lang, t)
  IN IF CacheHit(cached.value)
       THEN [rl       |-> st,
             ex       |-> [exs EXCEPT ![c] = Gone("resolved")],
             cache    |-> cached.cache,
             returned |-> Return(c, e, cached.value, << >>)]
       ELSE IF ~isValidVideoId(videoId)
         THEN [rl       |-> st,
               ex       |-> [exs EXCEPT ![c] = Gone("rejected")],
               cache    |-> cached.cache,
               returned |-> Return(c, e, << >>,
                                   << TranscriptError("INVALID_VIDEO_ID") >>)]
         ELSE [rl    |-> RLExecute(st, c, t),
               ex    |-> [exs EXCEPT ![c] = [e EXCEPT !.pc = "waiting"]],
               cache |-> cached.cache]

\* extractTranscript up to its first suspension (lines 66-82), as call c.
extractTranscript(st, exs, cch, c, videoId, lang, t) ==
  LET e      == [NewExtraction EXCEPT !.videoId = videoId, !.lang = lang]
      cached == CacheGet(cch, videoId, lang, t)
  IN IF ~isValidVideoId(videoId)
       THEN [rl       |-> st,
             ex       |-> [exs EXCEPT ![c] = Gone("rejected")],
             cache    |-> cch,
             returned |-> Return(c, e, << >>,
                                 << TranscriptError("INVALID_VIDEO_ID") >>)]
       ELSE IF CacheHit(cached.value)
         THEN [rl       |-> st,
               ex       |-> [exs EXCEPT ![c] = Gone("resolved")],
               cache    |-> cached.cache,
               returned |-> Return(c, e, cached.value, << >>)]
         ELSE [rl    |-> RLExecute(st, c, t),
               ex    |-> [exs EXCEPT ![c] = [e EXCEPT !.pc = "waiting"]],
               cache |-> cached.cache]

\* extractTranscript after `await this.rateLimiter.execute(...)` (lines
\* 80-87): a value is cached and returned, an error propagates.
ResumeCachesErrors(cch, e, kind, settled, t) ==
  CacheSet(cch, e.videoId, settled, e.lang, t)

\* A resume that leaves an entry the cache already holds in place.
ResumeKeepsFirst(cch, e, kind, settled, t) ==
  IF kind = "value" /\ IndexOfKey(cch.entries, generateKey(e.videoId, e.lang)) = 0
    THEN CacheSet(cch, e.videoId, settled, e.lang, t) ELSE cch

Resume(cch, e, kind, settled, t) ==
  IF kind = "value" THEN CacheSet(cch, e.videoId, settled, e.lang, t) ELSE cch

\* The function of call c settles (kind "value" or "error"): execute settles
\* with the same, extractTranscript resumes, and the pool starts its next
\* queued function.
FnSettles(st, exs, cch, c, kind, settled, config, t) ==
  LET st1 == RLFinish(st, c, kind, t)
      how == st1.settled.result
      e1  == Gone(IF how = "value" THEN "resolved" ELSE "rejected")
  IN [rl       |-> st1,
      ex       |-> BeginStarted([exs EXCEPT ![c] = e1], st, st1, config),
      cache    |-> Resume(cch, exs[c], how, settled, t),
      returned |-> IF how = "value"
                     THEN Return(c, exs[c], << settled >>, << >>)
                     ELSE Return(c, exs[c], << >>, << settled >>)]

\* A catch block that gives the slot of the pool back while the call sleeps.
AttemptFailsFreesSlot(st, exs, cch, c, err, config, t) ==
  LET e == [exs[c] EXCEPT !.lastError = << err >>, !.track = << >>]
  IN IF AnotherAttempt(e.attempt, config.retryAttempts)
       THEN [rl    |-> [st EXCEPT !.limiters[st.calls[c].pool] = PLRelease(@)],
             ex    |-> [exs EXCEPT ![c] =
                          [e EXCEPT !.pc = "retryDelay",
                                    !.wakeAt = t + config.retryDelay * e.attempt]],
             cache |-> cch]
       ELSE FnSettles(st, [exs EXCEPT ![c] = e], cch, c, "error", err, config, t)

\* A catch block that keeps the first error: `lastError = lastError || error`.
AttemptFailsKeepsFirst(st, exs, cch, c, err, config, t) ==
  LET first == IF exs[c].lastError = << >> THEN err ELSE exs[c].lastError[1]
      e     == [exs[c] EXCEPT !.lastError = << first >>, !.track = << >>]
  IN IF AnotherAttempt(e.attempt, config.retryAttempts)
       THEN [rl    |-> st,
             ex    |-> [exs EXCEPT ![c] =
                          [e EXCEPT !.pc = "retryDelay",
                                    !.wakeAt = t + config.retryDelay * e.attempt]],
             cache |-> cch]
       ELSE FnSettles(st, [exs EXCEPT ![c] = e], cch, c, "error", first, config, t)

\* A catch block whose delay is retryDelay after every attempt.
AttemptFailsConstantDelay(st, exs, cch, c, err, config, t) ==
  LET e == [exs[c] EXCEPT !.lastError = << err >>, !.track = << >>]
  IN IF AnotherAttempt(e.attempt, config.retryAttempts)
       THEN [rl    |-> st,
             ex    |-> [exs EXCEPT ![c] =
                          [e EXCEPT !.pc = "retryDelay",
                                    !.wakeAt = t + config.retryDelay]],
             cache |-> cch]
       ELSE FnSettles(st, [exs EXCEPT ![c] = e], cch, c, "error", err, config, t)

\* An attempt of call c failed with err (lines 100-110): the error is kept,
\* and either the retry delay starts or the loop ends and lastError is thrown.
AttemptFails(st, exs, cch, c, err, config, t) ==
  LET e == [exs[c] EXCEPT !.lastError = << err >>, !.track = << >>]
  IN IF AnotherAttempt(e.attempt, config.retryAttempts)
       THEN [rl    |-> st,
             ex    |-> [exs EXCEPT ![c] =
                          [e EXCEPT !.pc = "retryDelay",
                                    !.wakeAt = t + config.retryDelay * e.attempt]],
             cache |-> cch]
       ELSE FnSettles(st, [exs EXCEPT ![c] = e], cch, c, "error", err, config, t)

\* The GET of the watch page of call c comes back (lines 120-147).
pageResponse(st, exs, cch, c, response, config, t) ==
  LET track == selectCaptionTrack(PageTracks, exs[c].lang)
  IN IF PageError(response) # << >>
       THEN AttemptFails(st, exs, cch, c, PageError(response)[1], config, t)
       ELSE IF track = << >>
         THEN AttemptFails(st, exs, cch, c,
                [code |-> "TRANSCRIPT_NOT_AVAILABLE",
                 message |-> "No suitable transcript found for specified language"],
                config, t)
         ELSE [rl    |-> st,
               ex    |-> [exs EXCEPT ![c].pc = "segments",
                                     ![c].track = track,
                                     ![c].segmentFetches = @ + 1],
               cache |-> cch]

\* The GET of the caption track of call c comes back (lines 147-158).
segmentResponse(st, exs, cch, c, response, config, t) ==
  IF SegmentError(response) # << >>
    THEN AttemptFails(st, exs, cch, c, SegmentError(response)[1], config, t)
    ELSE FnSettles(st, [exs EXCEPT ![c].track = << >>], cch, c, "value",
                   VideoTranscript(exs[c].videoId, exs[c].track[1], Segments, t),
                   config, t)

\* The retry delay of call c is over: the next attempt (lines 96-99).
nextAttempt(exs, c) ==
  [exs EXCEPT ![c].pc = "page", ![c].attempt = @ + 1,
              ![c].pageFetches = @ + 1, ![c].wakeAt = 0]

\* `throw lastError || new TranscriptError(...)` after a skipped loop.
loopSkipped(st, exs, cch, c, config, t) ==
  FnSettles(st, exs, cch, c, "error",
            IF exs[c].lastError # << >> THEN exs[c].lastError[1]
              ELSE ExtractionFailedAfterRetries,
            config, t)

\* Retry delays that have run out, and those still pending.
RetryDue(exs, t) ==
  { c \in DOMAIN exs : exs[c].pc = "retryDelay" /\ exs[c].wakeAt <= t }

RetryPending(exs) == { c \in DOMAIN exs : exs[c].pc = "retryDelay" }

\* ------------------------------------------------- YouTubeTranscriptService

\* The prefixes after which extractVideoId takes the video id out of a URL.
UrlPatterns ==
  << << "y", "o", "u", "t", "u", "b", "e", ".", "c", "o", "m", "/",
        "w", "a", "t", "c", "h", "?", "v", "=" >>,
     << "y", "o", "u", "t", "u", ".", "b", "e", "/" >>,
     << "y", "o", "u", "t", "u", "b", "e", ".", "c", "o", "m", "/",
        "e", "m", "b", "e", "d", "/" >> >>

\* [^&\n?#]: the characters that end the id in a URL.
StopChars == { "&", "\n", "?", "#" }

\* The prefix lies at position i of the url and an id character follows it.
MatchAt(url, i, prefix) ==
  /\ i + Len(prefix) <= Len(url)
  /\ SubSeq(url, i, i + Len(prefix) - 1) = prefix
  /\ url[i + Len(prefix)] \notin StopChars

\* ([^&\n?#]+) from position from on: as many characters as the class takes.
Capture(url, from) ==
  LET ends == { j \in from..Len(url) : \A k \in from..j : url[k] \notin StopChars }
      last == CHOOSE j \in ends : \A k \in ends : k <= j
  IN SubSeq(url, from, last)

\* extractVideoId: the id after the leftmost URL prefix; a string that is no
\* such URL (an 11-character id, which the second pattern captures whole, or
\* anything else) is returned as it is.
extractVideoId(url) ==
  LET hits == { h \in (1..Len(url)) \X (1..Len(UrlPatterns)) :
                  MatchAt(url, h[1], UrlPatterns[h[2]]) }
  IN IF hits = {}
       THEN url
       ELSE LET h == CHOOSE g \in hits : \A f \in hits : g[1] <= f[1]
            IN Capture(url, h[1] + Len(UrlPatterns[h[2]]))

\* https-less short URL of the video VidA.
UrlA == UrlPatterns[2] \o VidA

FormatJson == << "j", "s", "o", "n" >>
FormatText == << "t", "e", "x", "t" >>

\* `transcript:${cleanVideoId}:${language}:${format}`
cacheKey(cleanVideoId, language, format) ==
  << "t", "r", "a", "n", "s", "c", "r", "i", "p", "t", ":" >>
    \o cleanVideoId \o << ":" >> \o language \o << ":" >> \o format

\* new NodeCache({stdTTL, checkperiod: 120, maxKeys, useClones: false})
\* inside new Cache(ttl, maxSize, enabled).  data holds the keys in the order
\* they were first set, each with its value v and the time t at which it
\* expires (0: never).
Cache(ttl, maxSize, enabled) ==
  [enabled |-> enabled, stdTTL |-> ttl, maxKeys |-> maxSize, data |-> << >>]

\* The position of the key in data, 0 when it has none.
IndexOfData(data, key) ==
  IF \E i \in 1..Len(data) : data[i].key = key
    THEN CHOOSE i \in 1..Len(data) : data[i].key = key
    ELSE 0

\* NodeCache._check: an entry with a time to live that lies in the past has
\* expired.
Expired(item, t) == item.t # 0 /\ item.t < t

\* NodeCache.get(key): an expired entry is deleted and undefined returned.
NodeCacheGet(c, key, t) ==
  LET i == IndexOfData(c.data, key)
  IN IF i = 0
       THEN [value |-> << >>, cache |-> c]
       ELSE IF Expired(c.data[i], t)
         THEN [value |-> << >>, cache |-> [c EXCEPT !.data = RemoveAt(@, i)]]
         ELSE [value |-> << c.data[i].v >>, cache |-> c]

\* NodeCache._wrap: the time at which a value set at t with this ttl expires.
\* A ttl of 0 is no expiry; with no ttl given the stdTTL counts.
Livetime(c, ttl, t) ==
  LET seconds == OrDefault(ttl, c.stdTTL)
  IN IF seconds = 0 THEN 0 ELSE t + seconds * MsPerSecond

CacheFullMessage == "Cache max keys amount exceeded"

\* NodeCache.set(key, value, ttl): throws ECACHEFULL when the cache already
\* holds maxKeys keys (-1: no bound), whether the key is new or not.
NodeCacheSet(c, key, value, ttl, t) ==
  LET i    == IndexOfData(c.data, key)
      item == [key |-> key, v |-> value, t |-> Livetime(c, ttl, t)]
  IN IF c.maxKeys > -1 /\ Len(c.data) >= c.maxKeys
       THEN [threw |-> << CacheFullMessage >>, cache |-> c]
       ELSE [threw |-> << >>,
             cache |-> IF i # 0 THEN [c EXCEPT !.data[i] = item]
                                ELSE [c EXCEPT !.data = Append(@, item)]]

\* A cache that finds nothing.
UtilCacheGetMisses(c, key, t) == [value |-> << >>, cache |-> c]

\* Cache.get(key): undefined while the cache is disabled.
UtilCacheGet(c, key, t) ==
  IF ~c.enabled THEN [value |-> << >>, cache |-> c] ELSE NodeCacheGet(c, key, t)

\* Cache.set(key, value, ttl?): `this.cache.set(key, value, ttl || 0)`; nothing
\* is stored while the cache is disabled.
UtilCacheSet(c, key, value, ttl, t) ==
  IF ~c.enabled
    THEN [threw |-> << >>, cache |-> c]
    ELSE NodeCacheSet(c, key, value, << OrDefault(ttl, 0) >>, t)

\* Cache.flush()
UtilCacheFlush(c) == IF ~c.enabled THEN c ELSE [c EXCEPT !.data = << >>]

\* What fetchTranscript resolves with: items with offset and duration in ms.
TranscriptData == << [text |-> "Hello world", offset |-> 0, duration |-> 2500] >>

\* A fetchTranscript promise settles: resolved with data, rejected with an
\* Error (message), or rejected with a value that is no Error.
Resolved(data) == [kind |-> "resolved", data |-> data, message |-> ""]
RejectedError(message) == [kind |-> "error", data |-> << >>, message |-> message]
RejectedOther == [kind |-> "other", data |-> << >>, message |-> ""]

\* `error instanceof Error ? error.message : 'Unknown error'`
MessageOf(outcome) ==
  IF outcome.kind = "error" THEN outcome.message ELSE "Unknown error"

\* transcriptData.map(...): offset and duration in seconds.
ToTranscript(data) ==
  [i \in 1..Len(data) |->
     [text     |-> data[i].text,
      start    |-> Quotient(data[i].offset, MsPerSecond),
      duration |-> Quotient(data[i].duration, MsPerSecond)]]

RECURSIVE TotalDuration(_)
\* transcript.reduce((acc, item) => acc + item.duration, 0)
TotalDuration(transcript) ==
  IF transcript = << >>
    THEN Quotient(0, MsPerSecond)
    ELSE Quotient(transcript[1].duration.num + TotalDuration(Tail(transcript)).num,
                  MsPerSecond)

\* The response of lines 58-68.
TranscriptResponse(cleanVideoId, language, transcript, t) ==
  [videoId    |-> cleanVideoId,
   title      |-> "YouTube Video",
   language   |-> language,
   transcript |-> transcript,
   metadata   |-> [extractedAt |-> t, source |-> "youtube-transcript",
                   duration |-> << TotalDuration(transcript) >>,
                   error |-> << >>]]

\* The structured error response of lines 80-90.
ErrorResponse(videoId, language, message, t) ==
  [videoId    |-> extractVideoId(videoId),
   title      |-> "Error",
   language   |-> language,
   transcript |-> << >>,
   metadata   |-> [extractedAt |-> t, source |-> "youtube-transcript",
                   duration |-> << >>,
                   error |-> << message >>]]

\* A getTranscript call: where it stands, its arguments, what its
\* fetchTranscript promise settled with, and what it returned.
NewGetCall ==
  [pc |-> "new", videoId |-> << >>, language |-> << >>, format |-> << >>,
   fetched |-> << >>, response |-> << >>]

\* getTranscript up to its first suspension (lines 32-49): a cached response
\* is returned, otherwise fetchTranscript is called.
getTranscript(c, videoId, language, format, t) ==
  LET lang   == OrDefault(language, LangEn)
      fmt    == OrDefault(format, FormatJson)
      clean  == extractVideoId(videoId)
      cached == UtilCacheGet(c, cacheKey(clean, lang, fmt), t)
      call   == [NewGetCall EXCEPT !.videoId = videoId, !.language = lang,
                                   !.format = fmt]
  IN IF cached.value # << >>
       THEN [call    |-> [call EXCEPT !.pc = "returned", !.response = cached.value],
             cache   |-> cached.cache,
             fetches |-> << >>]
       ELSE [call    |-> [call EXCEPT !.pc = "fetching"],
             cache   |-> cached.cache,
             fetches |-> << [videoId |-> clean, lang |-> lang] >>]

\* A call that stores the error response of a failed fetch.
fetchSettlesCachingErrors(c, call, outcome, t) ==
  LET clean    == extractVideoId(call.videoId)
      key      == cacheKey(clean, call.language, call.format)
      response == IF outcome.kind = "resolved"
                    THEN TranscriptResponse(clean, call.language,
                                            ToTranscript(outcome.data), t)
                    ELSE ErrorResponse(call.videoId, call.language,
                                       MessageOf(outcome), t)
      stored   == UtilCacheSet(c, key, response, << >>, t)
  IN [call  |-> [call EXCEPT !.pc = "returned", !.fetched = << outcome >>,
                               !.response = << response >>],
      cache |-> stored.cache]

\* getTranscript from the settling of fetchTranscript on (lines 47-91): the
\* response is built and cached; a rejection, or an error thrown by
\* cache.set, leads to the error response.
fetchSettles(c, call, outcome, t) ==
  LET clean    == extractVideoId(call.videoId)
      key      == cacheKey(clean, call.language, call.format)
      response == TranscriptResponse(clean, call.language,
                                     ToTranscript(outcome.data), t)
      stored   == UtilCacheSet(c, key, response, << >>, t)
      settled == [call EXCEPT !.pc = "returned", !.fetched = << outcome >>]
      failed(message) ==
        [settled EXCEPT !.response = << ErrorResponse(call.videoId, call.language,
                                                      message, t) >>]
  IN IF outcome.kind # "resolved"
       THEN [call |-> failed(MessageOf(outcome)), cache |-> c]
       ELSE IF stored.threw # << >>
         THEN [call |-> failed(stored.threw[1]), cache |-> stored.cache]
         ELSE [call  |-> [settled EXCEPT !.response = << response >>],
               cache |-> stored.cache]

\* `await this.delay(1000)` between the videos of a bulk request.
BulkDelayMs == 1000

NoBulkCall ==
  [pc |-> "idle", request |-> << >>, index |-> 0, call |-> NewGetCall,
   results |-> << >>, errors |-> << >>, wakeAt |-> 0, response |-> << >>]

\* Both lists take the response.
pushResponseTwice(b, response) ==
  [b EXCEPT !.results = Append(@, response),
            !.errors  = Append(@, [videoId |-> extractVideoId(b.call.videoId),
                                   error   |-> "duplicate"])]

\* Lines 111-118: a response with a truthy metadata.error goes to errors,
\* any other to results.
pushResponse(b, response) ==
  IF response.metadata.error # << >> /\ response.metadata.error[1] # ""
    THEN [b EXCEPT !.errors =
            Append(@, [videoId |-> extractVideoId(b.call.videoId),
                       error   |-> response.metadata.error[1]])]
    ELSE [b EXCEPT !.results = Append(@, response)]

\* The body of the loop once getTranscript has returned (lines 111-121).
afterGetTranscript(b, t) ==
  [pushResponse(b, b.call.response[1]) EXCEPT !.pc = "delaying",
                                              !.wakeAt = t + BulkDelayMs]

\* The loop of getBulkTranscripts at the video of the index (lines 103-109),
\* or its end (lines 131-139).
bulkIteration(c, b, t) ==
  LET ids == b.request.videoIds
      got == getTranscript(c, ids[b.index], b.request.language,
                           b.request.outputFormat, t)
      b1  == [b EXCEPT !.call = got.call]
  IN IF b.index > Len(ids)
       THEN [bulk |-> [b EXCEPT !.pc = "resolved",
                                !.response =
                                  << [results |-> b.results,
                                      errors  |-> b.errors,
                                      summary |-> [total      |-> Len(ids),
                                                   successful |-> Len(b.results),
                                                   failed     |-> Len(b.errors)]] >>],
             cache   |-> c,
             fetches |-> << >>]
       ELSE [bulk    |-> IF got.call.pc = "returned"
                           THEN afterGetTranscript(b1, t)
                           ELSE [b1 EXCEPT !.pc = "fetching"],
             cache   |-> got.cache,
             fetches |-> got.fetches]

\* A service whose methods have not been called.
InitTranscriptIdle ==
  /\ transcriptCache = Cache(1, 1, TRUE)
  /\ getCalls = << >>
  /\ bulkCall = NoBulkCall
  /\ fetcherCalls = << >>

\* -------------------------------------------------------------- HTTPTransport

\* `this.config.rateLimit?.windowMs || 60000` and `this.config.rateLimit?.max
\* || 100`
DefaultWindowMs == 60000
DefaultMax == 100

\* `a || b` on numbers: 0 is falsy.
OrNumber(a, b) == IF a = 0 THEN b ELSE a

\* The timestamps that are less than windowMs old.
CleanTimestamps(timestamps, windowMs, t) ==
  SelectSeq(timestamps, LAMBDA timestamp : t - timestamp < windowMs)

\* A middleware that records the request before it looks at the limit.
rateLimitMiddlewareRecordsAll(rateLimit, timestamps, t) ==
  LET windowMs    == OrNumber(rateLimit.windowMs, DefaultWindowMs)
      maxRequests == OrNumber(rateLimit.max, DefaultMax)
      cleaned     == CleanTimestamps(timestamps, windowMs, t)
  IN IF Len(cleaned) >= maxRequests
       THEN [status |-> 429, next |-> FALSE, timestamps |-> Append(cleaned, t)]
       ELSE [status |-> 0, next |-> TRUE, timestamps |-> Append(cleaned, t)]

\* rateLimitMiddleware(req, res, next) at time t: old timestamps are dropped;
\* with maxRequests left the answer is 429, otherwise the time is recorded
\* and next() called (status 0: the answer is left to the routes).
rateLimitMiddleware(rateLimit, timestamps, t) ==
  LET windowMs    == OrNumber(rateLimit.windowMs, DefaultWindowMs)
      maxRequests == OrNumber(rateLimit.max, DefaultMax)
      cleaned     == CleanTimestamps(timestamps, windowMs, t)
  IN IF Len(cleaned) >= maxRequests
       THEN [status |-> 429, next |-> FALSE, timestamps |-> cleaned]
       ELSE [status |-> 0, next |-> TRUE, timestamps |-> Append(cleaned, t)]

\* ------------------------------------------------------------------ MCPServer

\* What the server emits.
TransportCloseEvent(name) == [event |-> "transport:close", name |-> name, message |-> ""]
TransportErrorEvent(name) == [event |-> "transport:error", name |-> name, message |-> ""]
StartEvent == [event |-> "start", name |-> "", message |-> ""]
FailoverEvent(name) == [event |-> "failover", name |-> name, message |-> ""]
AllFailedEvent == [event |-> "error", name |-> "", message |-> "All transports failed"]

\* transport.isAvailable(): stdio looks at the standard streams of the
\* process, the SSE and the HTTP transport at their listening server.
isAvailable(transport, piped) ==
  IF transport.name = "stdio" THEN piped ELSE transport.started

\* The next entry of this.transports, from position from on, that is not the
\* active transport and is available; 0 when there is none.
NextCandidate(st, from) ==
  LET fits(i) == /\ << st.transports[i].name >> # st.activeTransport
                 /\ isAvailable(st.transports[i], st.stdinPiped)
  IN IF \E i \in from..Len(st.transports) : fits(i)
       THEN CHOOSE i \in from..Len(st.transports) :
              fits(i) /\ \A j \in from..(i - 1) : ~fits(j)
       ELSE 0

\* The for loop of failover() from position from on, up to its next await:
\* the next candidate becomes activeTransport and server.connect is awaited;
\* with no candidate left 'error' is emitted.
failoverLoop(st, f, from) ==
  LET i == NextCandidate(st, from)
  IN IF i = 0
       THEN [st EXCEPT !.emitted = Append(@, AllFailedEvent),
                       !.failovers[f].pc = "done"]
       ELSE [st EXCEPT !.activeTransport = << st.transports[i].name >>,
                       !.failovers[f].pc = "connecting",
                       !.failovers[f].pos = i]

\* The catch block of the loop: the candidate is given up (why: "connect"
\* rejected, the transport was "started" already, or "listen" failed) and
\* the loop goes on behind it.
failoverFailed(st, f, why) ==
  LET pos  == st.failovers[f].pos
      name == st.transports[pos].name
  IN failoverLoop([st EXCEPT !.failovers[f].failed =
                               @ \cup {[name |-> name, why |-> why]}], f, pos + 1)

\* The candidate has started: 'failover' is emitted and failover() returns.
failoverDone(st, f) ==
  LET pos  == st.failovers[f].pos
      name == st.transports[pos].name
  IN [st EXCEPT !.transports[pos].started = TRUE,
                !.emitted = Append(@, FailoverEvent(name)),
                !.failovers[f].pc = "done"]

\* server.connect has settled: a rejection goes to the catch block; otherwise
\* transport.start() is called, which throws when the transport has been
\* started already, is done at once for stdio, and waits for listen() for the
\* other two.
connectSettles(st, f, outcome) ==
  LET pos == st.failovers[f].pos
      tr  == st.transports[pos]
  IN IF outcome = "throws"
       THEN failoverFailed(st, f, "connect")
       ELSE IF tr.started
         THEN failoverFailed(st, f, "started")
       ELSE IF tr.name = "stdio"
         THEN failoverDone(st, f)
         ELSE [st EXCEPT !.failovers[f].pc = "starting"]

\* listen() of the candidate has settled: it listens, or the server emitted
\* 'error' and start() rejected.
listenSettles(st, f, outcome) ==
  LET pos == st.failovers[f].pos
      tr  == st.transports[pos]
  IN IF outcome = "listening"
       THEN failoverDone(st, f)
       ELSE failoverFailed([st EXCEPT !.emitted =
                                        Append(@, TransportErrorEvent(tr.name))],
                           f, "listen")

\* The 'close' handler of registerTransport: 'transport:close' is emitted,
\* and failover() is called when the transport is the active one.
onClose(st, name) ==
  LET closed == [st EXCEPT !.emitted = Append(@, TransportCloseEvent(name))]
      f      == Len(st.failovers) + 1
  IN IF st.activeTransport = << name >>
       THEN failoverLoop([closed EXCEPT !.failovers =
                            Append(@, [pc |-> "new", pos |-> 0, from |-> name,
                                       failed |-> {}])], f, 1)
       ELSE closed

\* selectTransport(): stdio before sse before http, the first one that is
\* registered and available.
Priorities == << "stdio", "sse", "http" >>

selectTransport(st) ==
  LET found(k) == \E i \in 1..Len(st.transports) :
                    /\ st.transports[i].name = Priorities[k]
                    /\ isAvailable(st.transports[i], st.stdinPiped)
  IN IF \E k \in 1..Len(Priorities) : found(k)
       THEN << Priorities[CHOOSE k \in 1..Len(Priorities) :
                 found(k) /\ \A j \in 1..(k - 1) : ~found(j)] >>
       ELSE << >>

\* A transport nobody has sent a request to.
InitHttpIdle ==
  /\ httpConfig = << >>
  /\ requestTimestamps = << >>
  /\ httpLog = << >>

\* A server with no transport.
InitServerIdle ==
  /\ transports = << >>
  /\ stdinPiped = FALSE
  /\ activeTransport = << >>
  /\ emitted = << >>
  /\ failovers = << >>

InitTransportsIdle == InitHttpIdle /\ InitServerIdle

\* ----------------------------------------------------- BulkProcessorService

\* A processBulk that keeps the duplicates.
UniqueKeepsAll(s) == s

RECURSIVE Unique(_)
\* [...new Set(videoIds)]: first occurrences, in order.
Unique(s) ==
  IF s = <<>> THEN <<>>
  ELSE LET init == Unique(SubSeq(s, 1, Len(s) - 1))
           last == s[Len(s)]
       IN IF \E i \in 1..Len(init) : init[i] = last THEN init ELSE Append(init, last)

Range(s) == { s[i] : i \in 1..Len(s) }

SeqsUpTo(S, n) == UNION { [1..k -> S] : k \in 0..n }

nonRetryableCodes ==
  { "VIDEO_NOT_FOUND", "PRIVATE_VIDEO", "DELETED_VIDEO", "INVALID_VIDEO_ID",
    "TRANSCRIPT_NOT_AVAILABLE" }

\* The VideoTranscript the extractor hands back to processVideo for v.
BulkTranscript(v) ==
  [videoId |-> v, language |-> "en", isAutoGenerated |-> FALSE, segments |-> 1,
   fetchedAt |-> 0]

\* The rows of processVideo (lines 151-156) and of the catch block (lines
\* 101-105); the run is made without format options, so no row is formatted.
SuccessRow(v, t) ==
  [videoId |-> v, success |-> TRUE, transcript |-> <<t>>, error |-> <<>>]

FailureRow(v, msg) ==
  [videoId |-> v, success |-> FALSE, transcript |-> <<>>, error |-> <<msg>>]

\* { ...progress }: a shallow copy; its errors field is the shared array.
Snapshot(p) ==
  [total |-> p.total, completed |-> p.completed, failed |-> p.failed,
   currentVideo |-> p.currentVideo]

\* The errors property of a snapshot: the spread copies the reference, so
\* every snapshot reads the one array progress.errors, as it is when read.
SnapshotErrors(snapshot, prog) == prog.errors

\* A pool function not yet started. calls counts the extractTranscript calls
\* made for the video and outcome is how the latest one settled ("" before).
NewTask == [pc |-> "queued", attempt |-> 0, lastError |-> <<>>, calls |-> 0, outcome |-> ""]

InitBulkIdle ==
  /\ bulkPc = "idle"
  /\ bulkOpts = [videoIds |-> <<>>, concurrency |-> 1, retryAttempts |-> 1,
                 onProgress |-> "none"]
  /\ uniqueVideoIds = <<>>
  /\ limit = pLimit(1)
  /\ task = [v \in {} |-> NewTask]
  /\ results = <<>>
  /\ progress = [total |-> 0, completed |-> 0, failed |-> 0,
                 currentVideo |-> <<>>, errors |-> <<>>]
  /\ snapshots = <<>>

nonBulkVars == << rlVars, exVars, directVars, tsVars, trVars >>

InitBulk ==
  /\ InitBulkIdle
  /\ InitLimiterIdle
  /\ InitExtractorIdle
  /\ InitDirectIdle
  /\ InitTranscriptIdle
  /\ InitTransportsIdle

\* The body of a pool function up to its first suspension: processVideo
\* enters its loop, which calls extractTranscript when retryAttempts >= 1 and
\* otherwise falls through to the throw of line 183.
TaskBegin(t, retryAttempts) ==
  IF retryAttempts >= 1
    THEN [t EXCEPT !.pc = "extracting", !.attempt = 1, !.calls = @ + 1]
    ELSE [t EXCEPT !.pc = "throwing", !.attempt = 1]

RECURSIVE StartQueued(_, _, _, _)
\* The pool starts queued functions, oldest first, while it has a free slot;
\* each sets progress.currentVideo (line 77).
StartQueued(l, tk, cur, retryAttempts) ==
  IF PLCanStart(l)
    THEN LET v == PLHead(l)
         IN StartQueued(PLStart(l),
                        [tk EXCEPT ![v] = TaskBegin(@, retryAttempts)],
                        <<v>>, retryAttempts)
    ELSE [limit |-> l, task |-> tk, currentVideo |-> cur]

RECURSIVE EnqueueAll(_, _)
\* uniqueVideoIds.map(videoId => limit(...))
EnqueueAll(l, ids) ==
  IF ids = <<>> THEN l ELSE EnqueueAll(PLEnqueue(l, Head(ids)), Tail(ids))

\* processBulk(options) up to `await Promise.all(tasks)`.
processBulk(videoIds, concurrency, retryAttempts, onProgress) ==
  /\ bulkPc = "idle"
  /\ LET ids == Unique(videoIds)
         st  == StartQueued(EnqueueAll(pLimit(concurrency), ids),
                            [v \in Range(ids) |-> NewTask], <<>>, retryAttempts)
     IN /\ bulkOpts' = [videoIds |-> videoIds, concurrency |-> concurrency,
                        retryAttempts |-> retryAttempts, onProgress |-> onProgress]
        /\ uniqueVideoIds' = ids
        /\ limit' = st.limit
        /\ task' = st.task
        /\ results' = <<>>
        /\ progress' = [total |-> Len(ids), completed |-> 0, failed |-> 0,
                        currentVideo |-> st.currentVideo, errors |-> <<>>]
        /\ snapshots' = <<>>
        \* Promise.all([]) resolves at once.
        /\ bulkPc' = IF ids = <<>> THEN "resolved" ELSE "running"

\* How Promise.all(tasks) stands given the pool functions tk.
PromiseAll(pc, tk) ==
  IF pc # "running" THEN pc
  ELSE IF \E w \in DOMAIN tk : tk[w].pc = "rejected" THEN "rejected"
  ELSE IF \A w \in DOMAIN tk : tk[w].pc = "resolved" THEN "resolved"
  ELSE "running"

\* A pool function settles: the pool takes its slot back and starts the next
\* queued function; Promise.all rejects at the first rejected function and
\* resolves when every function has resolved.
Settle(tk, res, prog, snaps) ==
  LET st == StartQueued(PLRelease(limit), tk, prog.currentVideo,
                        bulkOpts.retryAttempts)
  IN /\ limit' = st.limit
     /\ task' = st.task
     /\ results' = res
     /\ progress' = [prog EXCEPT !.currentVideo = st.currentVideo]
     /\ snapshots' = snaps
     /\ bulkPc' = PromiseAll(bulkPc, st.task)

\* A pool function without its catch block: the failure of one item rejects
\* the pool function, and with it Promise.all.
CatchBlockMissing(v, err, tk, res, prog, snaps, cbThrows) ==
  Settle([tk EXCEPT ![v].pc = "rejected"], res, prog, snaps)

\* A catch block that leaves out its onProgress call.
CatchBlockSilent(v, err, tk, res, prog, snaps, cbThrows) ==
  LET prog1 == [prog EXCEPT !.failed = @ + 1,
                            !.errors = Append(@, [videoId |-> v, error |-> err.message])]
      res1  == Append(res, FailureRow(v, err.message))
  IN Settle([tk EXCEPT ![v].pc = "resolved"], res1, prog1, snaps)

\* The catch block of the pool function (lines 96-114), entered with the
\* tasks tk, the rows res and the counters prog; cbThrows says whether the
\* onProgress call in it throws, which rejects the pool function.
CatchBlock(v, err, tk, res, prog, snaps, cbThrows) ==
  LET prog1  == [prog EXCEPT !.failed = @ + 1,
                             !.errors = Append(@, [videoId |-> v, error |-> err.message])]
      res1   == Append(res, FailureRow(v, err.message))
      called == bulkOpts.onProgress # "none"
      snaps1 == IF called THEN Append(snaps, Snapshot(prog1)) ELSE snaps
      pc1    == IF called /\ cbThrows THEN "rejected" ELSE "resolved"
  IN Settle([tk EXCEPT ![v].pc = pc1], res1, prog1, snaps1)

\* May an invocation of onProgress throw?
CallbackThrows == IF bulkOpts.onProgress = "throws" THEN BOOLEAN ELSE {FALSE}

\* What a throwing onProgress throws: new Error('onProgress failed'), or an
\* Error made without a message, whose message is the empty string.
CallbackError == [code |-> "", message |-> "onProgress failed"]

CallbackErrorNoMessage == [code |-> "", message |-> ""]

CallbackErrors == {CallbackError, CallbackErrorNoMessage}

\* extractTranscript resolves for v: processVideo returns the success row
\* and the try block records it (lines 88-95); an onProgress that throws
\* there lands in the catch block.
ExtractResolves(v) ==
  /\ v \in DOMAIN task
  /\ task[v].pc = "extracting"
  /\ LET tk     == [task EXCEPT ![v].outcome = "ok"]
         prog1  == [progress EXCEPT !.completed = @ + 1]
         res1   == Append(results, SuccessRow(v, BulkTranscript(v)))
         called == bulkOpts.onProgress # "none"
         snaps1 == IF called THEN Append(snapshots, Snapshot(prog1)) ELSE snapshots
     IN \E t1 \in CallbackThrows :
          IF t1
            THEN \E t2 \in CallbackThrows, thrown \in CallbackErrors :
                   CatchBlock(v, thrown, tk, res1, prog1, snaps1, t2)
            ELSE Settle([tk EXCEPT ![v].pc = "resolved"], res1, prog1, snaps1)
  /\ UNCHANGED << bulkOpts, uniqueVideoIds >>

\* A loop that makes one attempt more than retryAttempts.
RetriesAfterOffByOne(code, attempt, retryAttempts) ==
  code \notin nonRetryableCodes /\ attempt <= retryAttempts

\* The catch block of processVideo's loop (lines 158-180) decides, for a
\* rejection with the given code on the given attempt, whether the loop goes
\* on to another attempt.
RetriesAfter(code, attempt, retryAttempts) ==
  code \notin nonRetryableCodes /\ attempt < retryAttempts

\* extractTranscript rejects for v with a TranscriptError of the given code:
\* break on a non-retryable code, wait retryDelay * attempt when an attempt
\* is left, and throw lastError when the loop ends.
ExtractRejects(v, code) ==
  /\ v \in DOMAIN task
  /\ task[v].pc = "extracting"
  /\ LET err == TranscriptError(code)
         tk  == [task EXCEPT ![v].lastError = <<err>>, ![v].outcome = code]
     IN IF RetriesAfter(code, task[v].attempt, bulkOpts.retryAttempts)
          THEN /\ task' = [tk EXCEPT ![v].pc = "delaying"]
               /\ UNCHANGED << bulkPc, limit, results, progress, snapshots >>
          ELSE \E t2 \in CallbackThrows :
                 CatchBlock(v, err, tk, results, progress, snapshots, t2)
  /\ UNCHANGED << bulkOpts, uniqueVideoIds >>

\* The delay between two attempts of processVideo elapses: the next attempt
\* calls extractTranscript again.
DelayElapses(v) ==
  /\ v \in DOMAIN task
  /\ task[v].pc = "delaying"
  /\ task' = [task EXCEPT ![v].pc = "extracting", ![v].attempt = @ + 1,
                          ![v].calls = @ + 1]
  /\ UNCHANGED << bulkPc, bulkOpts, uniqueVideoIds, limit, results, progress,
                  snapshots >>

\* processVideo with retryAttempts < 1 never enters its loop and throws
\* new Error('Processing failed') (line 183).
ProcessVideoThrows(v) ==
  /\ v \in DOMAIN task
  /\ task[v].pc = "throwing"
  /\ \E t2 \in CallbackThrows :
       CatchBlock(v, ProcessingFailed, task, results, progress, snapshots, t2)
  /\ UNCHANGED << bulkOpts, uniqueVideoIds >>

\* processBulk is called with a list over the videos V and a callback
\* behaviour out of callbacks.
StartBulk(V, callbacks) ==
  /\ bulkPc = "idle"
  /\ \E videoIds \in SeqsUpTo(V, MaxLen),
        concurrency \in 1..MaxConcurrency,
        retryAttempts \in 0..MaxBulkRetry,
        onProgress \in callbacks :
       processBulk(videoIds, concurrency, retryAttempts, onProgress)
  /\ UNCHANGED nonBulkVars

ExtractorResolves ==
  /\ \E v \in DOMAIN task : ExtractResolves(v)
  /\ UNCHANGED nonBulkVars

\* The extractor rejects with one of the given codes.
ExtractorRejects(codes) ==
  /\ \E v \in DOMAIN task, code \in codes : ExtractRejects(v, code)
  /\ UNCHANGED nonBulkVars

RetryDelayElapses ==
  /\ \E v \in DOMAIN task : DelayElapses(v)
  /\ UNCHANGED nonBulkVars

LoopSkipped ==
  /\ \E v \in DOMAIN task : ProcessVideoThrows(v)
  /\ UNCHANGED nonBulkVars

\* Runs over three videos in which the extractor rejects with one code of
\* each kind processVideo tells apart.
BulkVideos == {VidA, VidB, VidC}

BulkCallbacks == {"none", "returns"}

BulkCodes == {"PRIVATE_VIDEO", "TIMEOUT"}

NextBulk ==
  \/ StartBulk(BulkVideos, BulkCallbacks)
  \/ ExtractorResolves
  \/ ExtractorRejects(BulkCodes)
  \/ RetryDelayElapses
  \/ LoopSkipped

SpecBulk == InitBulk /\ [][NextBulk]_vars

\* Runs over two videos in which the extractor rejects with any error code.
TwoVideos == {VidA, VidB}

NoCallback == {"none"}

NextBulkCodes ==
  \/ StartBulk(TwoVideos, NoCallback)
  \/ ExtractorResolves
  \/ ExtractorRejects(ErrorCodes)
  \/ RetryDelayElapses
  \/ LoopSkipped

SpecBulkCodes == InitBulk /\ [][NextBulkCodes]_vars

\* Runs over two videos with every behaviour of onProgress: none given, one
\* that returns, one that may throw.
AllCallbacks == {"none", "returns", "throws"}

NextBulkCallbacks ==
  \/ StartBulk(TwoVideos, AllCallbacks)
  \/ ExtractorResolves
  \/ ExtractorRejects(BulkCodes)
  \/ RetryDelayElapses
  \/ LoopSkipped

SpecBulkCallbacks == InitBulk /\ [][NextBulkCallbacks]_vars

\* ------------------------------------------------ RateLimiterService alone

nonLimiterVars == << bulkVars, exVars, directVars, tsVars, trVars >>

InitLimiter ==
  /\ InitBulkIdle
  /\ InitTranscriptIdle
  /\ InitTransportsIdle
  /\ InitExtractorIdle
  /\ InitDirectIdle
  /\ now = 0
  /\ \E maxRequests \in 1..MaxRequests :
       rl = RateLimiter([maxRequests |-> maxRequests, windowMs |-> WindowTicks,
                         delayAfterLimit |-> DelayTicks])

\* A caller calls execute(fn).
Execute ==
  /\ now <= MaxTime
  /\ \E c \in DOMAIN rl.calls :
       /\ rl.calls[c].pc = "new"
       /\ \A d \in DOMAIN rl.calls : d < c => rl.calls[d].pc # "new"
       /\ rl' = RLExecute(rl, c, now)
  /\ UNCHANGED << now, nonLimiterVars >>

\* p-limit starts a queued function of a pool with a free slot.
Dispatch ==
  /\ \E k \in Startable(rl) : rl' = RLStartHead(rl, k, now)
  /\ UNCHANGED << now, nonLimiterVars >>

\* The delay of a held-back call has run out: the call joins the pool.
DelayDone ==
  /\ Startable(rl) = {}
  /\ \E c \in DueCalls(rl, now) : rl' = RLEnqueue(rl, c)
  /\ UNCHANGED << now, nonLimiterVars >>

\* How the operation of a call can settle.
FnResults == {"value", "error"}

\* A started operation settles, with a value or with an error.
Finish ==
  /\ Startable(rl) = {}
  /\ \E c \in DOMAIN rl.calls, fnResult \in FnResults :
       /\ rl.calls[c].pc = "running"
       /\ rl' = RLFinish(rl, c, fnResult, now)
  /\ UNCHANGED << now, nonLimiterVars >>

\* The cleanup interval fires.
CleanupOldCounts ==
  /\ Startable(rl) = {}
  /\ rl.cleanupAt <= now
  /\ rl' = RLCleanup(rl, now)
  /\ UNCHANGED << now, nonLimiterVars >>

UpdateOptions ==
  /\ rl.updates < MaxUpdates
  /\ \E maxRequests \in 1..MaxRequests : rl' = RLUpdateOptions(rl, maxRequests)
  /\ UNCHANGED << now, nonLimiterVars >>

ClearPending ==
  /\ rl' = RLClearPending(rl)
  /\ UNCHANGED << now, nonLimiterVars >>

\* The clock advances once nothing is left to run at the current tick; it
\* runs on past MaxTime only while a delay is pending.
Tick ==
  /\ Startable(rl) = {}
  /\ DueCalls(rl, now) = {}
  /\ rl.cleanupAt > now
  /\ now < MaxTime \/ Delayed(rl) # {}
  /\ now' = now + 1
  /\ rl' = RLAdvance(rl, now + 1)
  /\ UNCHANGED nonLimiterVars

NextLimiter ==
  \/ Execute
  \/ Dispatch
  \/ DelayDone
  \/ Finish
  \/ CleanupOldCounts
  \/ ClearPending
  \/ Tick

SpecLimiter == InitLimiter /\ [][NextLimiter]_vars

\* The event loop runs what is ready, timers fire, and every started
\* operation terminates.
FairSpecLimiter ==
  /\ SpecLimiter
  /\ WF_vars(Dispatch)
  /\ WF_vars(DelayDone)
  /\ WF_vars(Finish)
  /\ WF_vars(CleanupOldCounts)
  /\ WF_vars(Tick)

\* The limiter with updateOptions called while calls are queued or running.
NextLimiterUpdates ==
  \/ Execute
  \/ Dispatch
  \/ DelayDone
  \/ Finish
  \/ CleanupOldCounts
  \/ UpdateOptions
  \/ Tick

SpecLimiterUpdates == InitLimiter /\ [][NextLimiterUpdates]_vars

\* ------------------------------- YouTubeExtractorService with its services

nonExtractorVars == << bulkVars, directVars, tsVars, trVars >>

\* A service constructed with some configuration, nothing called yet.
InitExtractor(retryOptions, retryDelays) ==
  /\ InitBulkIdle
  /\ InitTranscriptIdle
  /\ InitTransportsIdle
  /\ InitDirectIdle
  /\ now = 0
  /\ \E maxRequests \in 1..MaxRequests :
       rl = RateLimiter([maxRequests |-> maxRequests, windowMs |-> WindowTicks,
                         delayAfterLimit |-> DelayTicks])
  /\ \E retryAttempts \in retryOptions, retryDelay \in retryDelays :
       exConfig = ExtractorConfig([retryAttempts |-> retryAttempts,
                                   retryDelay |-> retryDelay])
  /\ ex = [c \in 1..MaxCalls |-> NewExtraction]
  /\ \E maxSize \in 1..MaxCacheSize :
       cache = CacheService([ttl |-> << 1 >>, maxSize |-> << maxSize >>])
  /\ returned = NoReturn

\* The state a step of the service leads to.
Becomes(next) ==
  /\ rl' = next.rl
  /\ ex' = next.ex
  /\ cache' = next.cache
  /\ returned' = IF "returned" \in DOMAIN next THEN next.returned ELSE NoReturn
  /\ UNCHANGED << now, exConfig, nonExtractorVars >>

\* A caller calls extractTranscript(videoId, {lang}).
ExtractTranscript(calls, videos, langs) ==
  /\ now <= MaxTime
  /\ \E c \in calls :
       /\ ex[c].pc = "new"
       /\ \A d \in DOMAIN ex : d < c => ex[d].pc # "new"
       /\ \E videoId \in videos, lang \in langs :
            Becomes(extractTranscript(rl, ex, cache, c, videoId, lang, now))

\* p-limit starts a queued function of a pool with a free slot.
StartExtraction ==
  /\ \E k \in Startable(rl) :
       LET st1 == RLStartHead(rl, k, now)
       IN Becomes([rl |-> st1, ex |-> BeginStarted(ex, rl, st1, exConfig),
                   cache |-> cache])

\* The delay of a call the limiter held back has run out.
LimitDelayDone ==
  /\ Startable(rl) = {}
  /\ \E c \in DueCalls(rl, now) :
       Becomes([rl |-> RLEnqueue(rl, c), ex |-> ex, cache |-> cache])

\* The watch page of a call arrives, or its GET fails.
PageResponds(responses) ==
  /\ Startable(rl) = {}
  /\ \E c \in DOMAIN ex, response \in responses :
       /\ ex[c].pc = "page"
       /\ Becomes(pageResponse(rl, ex, cache, c, response, exConfig, now))

\* The caption track of a call arrives, or its GET fails.
SegmentsRespond(responses) ==
  /\ Startable(rl) = {}
  /\ \E c \in DOMAIN ex, response \in responses :
       /\ ex[c].pc = "segments"
       /\ Becomes(segmentResponse(rl, ex, cache, c, response, exConfig, now))

\* Both GETs of an attempt come back, the caption track right after the
\* watch page: between the two, the call is the only one to read what
\* pageResponse wrote.
AttemptResponds(pageResponses, segmentResponses) ==
  /\ Startable(rl) = {}
  /\ \E c \in DOMAIN ex, page \in pageResponses, segments \in segmentResponses :
       /\ ex[c].pc = "page"
       /\ LET paged == pageResponse(rl, ex, cache, c, page, exConfig, now)
          IN IF paged.ex[c].pc = "segments"
               THEN Becomes(segmentResponse(paged.rl, paged.ex, paged.cache, c,
                                            segments, exConfig, now))
               ELSE Becomes(paged)

\* A retry delay has run out.
RetryDelayDone ==
  /\ Startable(rl) = {}
  /\ \E c \in RetryDue(ex, now) :
       Becomes([rl |-> rl, ex |-> nextAttempt(ex, c), cache |-> cache])

\* extractWithRetry had no attempt to make.
RetryLoopSkipped ==
  /\ \E c \in DOMAIN ex :
       /\ ex[c].pc = "throwing"
       /\ Becomes(loopSkipped(rl, ex, cache, c, exConfig, now))

\* The cleanup interval of the limiter fires.
LimiterCleanup ==
  /\ Startable(rl) = {}
  /\ rl.cleanupAt <= now
  /\ Becomes([rl |-> RLCleanup(rl, now), ex |-> ex, cache |-> cache])

\* The clock advances once nothing is left to run at the current tick:
\* while a delay is pending and, if idle ticks are let pass, up to MaxTime.
ClockTick(idleTicks) ==
  /\ Startable(rl) = {}
  /\ DueCalls(rl, now) = {}
  /\ RetryDue(ex, now) = {}
  /\ \A c \in DOMAIN ex : ex[c].pc # "throwing"
  /\ rl.cleanupAt > now
  /\ (idleTicks /\ now < MaxTime) \/ Delayed(rl) # {} \/ RetryPending(ex) # {}
  /\ now' = now + 1
  /\ rl' = RLAdvance(rl, now + 1)
  /\ returned' = NoReturn
  /\ UNCHANGED << exConfig, ex, cache, nonExtractorVars >>

\* The inputs and responses of the specifications below.
Callers == 1..(MaxCalls - 1)

OneCaller == {1}

ValidVideos == {VidA}

Videos == {VidA, VidShort}

Langs == {<< >>, << LangEn >>}

RetryOptions == {<< 1 >>, << 2 >>}

AllRetryOptions == {<< >>} \cup {<< n >> : n \in 0..MaxRetry}

\* retryDelay, in clock ticks.
OneTick == {1}

RetryDelays == 1..MaxRetryDelay

SomePageResponses == {"ok", "timeout"}

SomeSegmentResponses == {"ok", "timeout"}

\* Concurrent calls that hit, miss and fill the cache, with retried attempts;
\* the clock advances while a call waits for a delay.
Next ==
  \/ ExtractTranscript(Callers, ValidVideos, Langs)
  \/ StartExtraction
  \/ LimitDelayDone
  \/ AttemptResponds(SomePageResponses, SomeSegmentResponses)
  \/ RetryDelayDone
  \/ LimiterCleanup
  \/ ClockTick(FALSE)

Spec == InitExtractor(RetryOptions, OneTick) /\ [][Next]_vars

\* A single call, under every retryAttempts and every response; the limiter
\* never holds a single call back.
NextRetry ==
  \/ ExtractTranscript(OneCaller, Videos, Langs)
  \/ StartExtraction
  \/ PageResponds(PageResponses)
  \/ SegmentsRespond(SegmentResponses)
  \/ RetryDelayDone
  \/ RetryLoopSkipped
  \/ LimiterCleanup
  \/ ClockTick(TRUE)

SpecRetry == InitExtractor(AllRetryOptions, RetryDelays) /\ [][NextRetry]_vars

\* The key the cache keeps the English transcript of VidA under: passed as a
\* video id, it is a string the pattern rejects.
VidAKeyEn == generateKey(VidA, << LangEn >>)

VideosAndKeys == {VidA, VidShort, VidAKeyEn}

TwoCallers == {1, 2}

\* Two calls, concurrent or one after the other, some with an invalid video
\* id, among them the key of an entry that the earlier call has cached.
NextInvalidId ==
  \/ ExtractTranscript(TwoCallers, VideosAndKeys, Langs)
  \/ StartExtraction
  \/ LimitDelayDone
  \/ AttemptResponds(SomePageResponses, SomeSegmentResponses)
  \/ RetryDelayDone
  \/ LimiterCleanup
  \/ ClockTick(FALSE)

SpecInvalidId == InitExtractor(RetryOptions, OneTick) /\ [][NextInvalidId]_vars

\* ------------------------------------------------ methods called on their own

\* The longest caption track list handed to selectCaptionTrack.
MaxTracks == 2

\* Caption tracks: auto-generated ones have kind 'asr', manual ones none.
TrackLanguages == {LangEn, LangEnUS, LangFr}

TrackKinds == {"asr", ""}

CaptionTracks == [languageCode : TrackLanguages, kind : TrackKinds]

TrackLists == SeqsUpTo(CaptionTracks, MaxTracks)

\* options.lang: undefined, the empty string, or a language code.
LangOptions == {<< >>, << << >> >>, << LangEn >>, << LangEnUS >>, << LangFr >>}

\* selectCaptionTrack(tracks, {lang}) is called, once.
SelectCaptionTrack(trackLists, langs) ==
  /\ directCall = NoCall
  /\ \E tracks \in trackLists, lang \in langs :
       /\ directCall' = [method |-> "selectCaptionTrack", tracks |-> tracks,
                         lang |-> lang]
       /\ directResult' = << selectCaptionTrack(tracks, lang) >>
  /\ UNCHANGED << bulkVars, rlVars, exVars, cacheUse, tsVars, trVars >>

NextSelect == SelectCaptionTrack(TrackLists, LangOptions)

SpecSelect == InitBulk /\ [][NextSelect]_vars

\* The languages a caller asks for: none, one the page has a track for by
\* prefix, and one it has no track for.
RequestedLangs == {<< >>, << LangEn >>, << LangDe >>}

AllLangOptions == LangOptions \cup {<< LangDe >>}

OneAttempt == {<< 1 >>}

\* One extractTranscript call of one attempt, for a language the video may
\* have no track in, and a call of selectCaptionTrack on any track list;
\* the call waits for no delay, so the clock stands still.
NextLanguage ==
  \/ ExtractTranscript(OneCaller, ValidVideos, RequestedLangs)
  \/ StartExtraction
  \/ PageResponds(SomePageResponses)
  \/ SegmentsRespond(SomeSegmentResponses)
  \/ SelectCaptionTrack(TrackLists, AllLangOptions)

SpecLanguage == InitExtractor(OneAttempt, OneTick) /\ [][NextLanguage]_vars

\* The longest result list handed to generateReport.
MaxRows == 2

\* The number 0 as a quotient.
Zero == Quotient(0, 1)

\* results.filter(r => r.success) and results.filter(r => !r.success)
Successful(rows) == SelectSeq(rows, LAMBDA r : r.success)

Failed(rows) == SelectSeq(rows, LAMBDA r : ~r.success)

\* languages[lang] = (languages[lang] || 0) + 1
CountLanguage(languages, lang) ==
  [l \in DOMAIN languages \cup {lang} |->
     IF l = lang
       THEN (IF l \in DOMAIN languages THEN languages[l] ELSE 0) + 1
       ELSE languages[l]]

RECURSIVE LanguageStats(_)
\* The loop of lines 292-298 over the rows: the histogram of the languages
\* and the sum of the durations of the rows that carry a transcript.
LanguageStats(rows) ==
  IF rows = << >> THEN [languages |-> << >>, totalDuration |-> 0]
  ELSE LET before == LanguageStats(SubSeq(rows, 1, Len(rows) - 1))
           result == rows[Len(rows)]
       IN IF result.transcript = << >> THEN before
          ELSE [languages     |-> CountLanguage(before.languages,
                                                result.transcript[1].language),
                totalDuration |->
                  before.totalDuration
                    + (IF result.transcript[1].duration = << >> THEN 0
                       ELSE result.transcript[1].duration[1])]

\* failed.map(r => ({ videoId: r.videoId, error: r.error || 'Unknown error' }))
ReportErrors(failed) ==
  [i \in 1..Len(failed) |->
     [videoId |-> failed[i].videoId,
      error   |-> IF failed[i].error = << >> \/ failed[i].error = << "" >>
                    THEN "Unknown error" ELSE failed[i].error[1]]]

\* A report whose language loop runs over every row.
generateReportOverAllRows(rows) ==
  LET successful == Successful(rows)
      failed     == Failed(rows)
      stats      == LanguageStats(rows)
  IN [total           |-> Len(rows),
      successful      |-> Len(successful),
      failed          |-> Len(failed),
      successRate     |-> IF Len(rows) > 0
                            THEN Quotient(Len(successful) * 100, Len(rows)) ELSE Zero,
      errors          |-> ReportErrors(failed),
      languages       |-> stats.languages,
      totalDuration   |-> stats.totalDuration,
      averageDuration |-> IF Len(successful) > 0
                            THEN Quotient(stats.totalDuration, Len(successful))
                            ELSE Zero]

\* generateReport(results) (lines 275-310).
generateReport(rows) ==
  LET successful == Successful(rows)
      failed     == Failed(rows)
      stats      == LanguageStats(successful)
  IN [total           |-> Len(rows),
      successful      |-> Len(successful),
      failed          |-> Len(failed),
      successRate     |-> IF Len(rows) > 0
                            THEN Quotient(Len(successful) * 100, Len(rows)) ELSE Zero,
      errors          |-> ReportErrors(failed),
      languages       |-> stats.languages,
      totalDuration   |-> stats.totalDuration,
      averageDuration |-> IF Len(successful) > 0
                            THEN Quotient(stats.totalDuration, Len(successful))
                            ELSE Zero]

\* The rows handed to generateReport: of two videos, successful or not,
\* with or without a transcript (in one of two languages, with or without
\* a duration) and with or without an error message.
ReportTranscripts ==
  {<< >>} \cup { << [language |-> l, duration |-> d] >> :
                    l \in {"en", "fr"}, d \in {<< >>, << 3 >>} }

ReportRows ==
  [videoId : {VidA, VidB}, success : BOOLEAN, transcript : ReportTranscripts,
   error : {<< >>, << "Video is private" >>}]

ReportLists == SeqsUpTo(ReportRows, MaxRows)

\* generateReport(results) is called, once.
GenerateReport(lists) ==
  /\ directCall = NoCall
  /\ \E rows \in lists :
       /\ directCall' = [method |-> "generateReport", results |-> rows]
       /\ directResult' = << generateReport(rows) >>
  /\ UNCHANGED << bulkVars, rlVars, exVars, cacheUse, tsVars, trVars >>

NextReport == GenerateReport(ReportLists)

SpecReport == InitBulk /\ [][NextReport]_vars

\* ----------------------------------------------------- CacheService alone

\* How many times the clock advances, by one ttl each time: an entry is as
\* old as the ttl one step after it was set or fetched, and older after two.
MaxCacheTicks == 2

\* The fingerprints the callers use: (videoId, lang).
CacheFingerprints ==
  { << VidA, << >> >>, << VidA, << LangEn >> >>,
    << VidB, << >> >>, << VidB, << LangEn >> >> }

\* The Transcript a caller stores for a fingerprint at time t.
CacheValue(videoId, lang, t) ==
  VideoTranscript(videoId, selectCaptionTrack(PageTracks, lang)[1], Segments, t)

\* cacheUse without the key, and cut down to the keys the cache c holds.
UseWithout(use, key) == SelectSeq(use, LAMBDA u : u.key # key)

UseHeld(use, c) ==
  SelectSeq(use, LAMBDA u : \E i \in 1..Len(c.entries) : c.entries[i].key = u.key)

UseOf(use, key) == use[CHOOSE i \in 1..Len(use) : use[i].key = key]

\* The keys the cache holds, stale ones included.
KeysOf(c) == { c.entries[i].key : i \in 1..Len(c.entries) }

\* A service constructed with a ttl of one second and some maxSize.
InitCache ==
  /\ InitBulkIdle
  /\ InitTranscriptIdle
  /\ InitTransportsIdle
  /\ InitLimiterIdle
  /\ InitDirectIdle
  /\ exConfig = ExtractorConfig([retryAttempts |-> << 1 >>, retryDelay |-> 1])
  /\ ex = [c \in 1..MaxCalls |-> NewExtraction]
  /\ returned = NoReturn
  /\ \E maxSize \in 1..MaxCacheSize :
       cache = CacheService([ttl |-> << 1 >>, maxSize |-> << maxSize >>])

\* A caller calls set(videoId, transcript, lang).
Set(fingerprints) ==
  /\ \E f \in fingerprints :
       LET key == generateKey(f[1], f[2])
           c1  == CacheSet(cache, f[1], CacheValue(f[1], f[2], now), f[2], now)
       IN /\ cache' = c1
          /\ directCall' = [method |-> "set", videoId |-> f[1], lang |-> f[2]]
          \* set returns nothing: what is kept in its place is whether the
          \* cache held the key and which keys it holds no longer
          /\ directResult' = << [held    |-> key \in KeysOf(cache),
                                 dropped |-> KeysOf(cache) \ KeysOf(c1)] >>
          /\ cacheUse' = UseHeld(Append(UseWithout(cacheUse, key),
                                        [key |-> key, setAt |-> now,
                                         touchedAt |-> now]), c1)
  /\ UNCHANGED << bulkVars, rlVars, exConfig, ex, returned, tsVars, trVars >>

\* A caller calls get(videoId, lang).
Get(fingerprints) ==
  /\ \E f \in fingerprints :
       LET key == generateKey(f[1], f[2])
           got == CacheGet(cache, f[1], f[2], now)
       IN /\ cache' = got.cache
          /\ directCall' = [method |-> "get", videoId |-> f[1], lang |-> f[2]]
          /\ directResult' = << got.value >>
          /\ cacheUse' =
               IF got.value # << >> /\ \E i \in 1..Len(cacheUse) : cacheUse[i].key = key
                 THEN UseHeld(Append(UseWithout(cacheUse, key),
                                     [UseOf(cacheUse, key) EXCEPT !.touchedAt = now]),
                              got.cache)
                 ELSE UseHeld(cacheUse, got.cache)
  /\ UNCHANGED << bulkVars, rlVars, exConfig, ex, returned, tsVars, trVars >>

\* A caller calls has(videoId, lang).
Has(fingerprints) ==
  /\ \E f \in fingerprints :
       LET key == generateKey(f[1], f[2])
           had == CacheHas(cache, f[1], f[2], now)
       IN /\ cache' = had.cache
          /\ directCall' = [method |-> "has"]
          /\ directResult' = << had.value >>
          /\ cacheUse' =
               UseHeld([i \in 1..Len(cacheUse) |->
                          IF had.value /\ cacheUse[i].key = key
                            THEN [cacheUse[i] EXCEPT !.touchedAt = now]
                            ELSE cacheUse[i]], had.cache)
  /\ UNCHANGED << bulkVars, rlVars, exConfig, ex, returned, tsVars, trVars >>

\* A caller calls delete(videoId, lang).
Delete(fingerprints) ==
  /\ \E f \in fingerprints :
       LET deleted == CacheDelete(cache, f[1], f[2])
       IN /\ cache' = deleted.cache
          /\ directCall' = [method |-> "delete"]
          /\ directResult' = << deleted.value >>
          /\ cacheUse' = UseHeld(cacheUse, deleted.cache)
  /\ UNCHANGED << bulkVars, rlVars, exConfig, ex, returned, tsVars, trVars >>

\* A caller calls clear().
Clear ==
  /\ cache' = CacheClear(cache)
  /\ directCall' = [method |-> "clear"]
  /\ directResult' = << >>
  /\ cacheUse' = UseHeld(cacheUse, CacheClear(cache))
  /\ UNCHANGED << bulkVars, rlVars, exConfig, ex, returned, tsVars, trVars >>

\* The time of one ttl passes.
CacheClockTick ==
  /\ now < MaxCacheTicks * TtlMs(cache)
  /\ now' = now + TtlMs(cache)
  /\ UNCHANGED << bulkVars, rl, exVars, directVars, tsVars, trVars >>

NextCache ==
  \/ Set(CacheFingerprints)
  \/ Get(CacheFingerprints)
  \/ Has(CacheFingerprints)
  \/ Delete(CacheFingerprints)
  \/ Clear
  \/ CacheClockTick

SpecCache == InitCache /\ [][NextCache]_vars

\* ------------------------------------- CacheService with its default options

\* `ttl?: number; // Cache TTL in seconds (default: 3600)`
DocumentedTtl == 3600

\* How many half hours the clock runs.
MaxHalfHours == 3

\* new CacheService() and new CacheService({ttl: 3600})
ConstructorOptions ==
  { [ttl |-> << >>, maxSize |-> << >>],
    [ttl |-> << DocumentedTtl >>, maxSize |-> << >>] }

DefaultsFingerprints == { << VidA, << >> >>, << VidB, << >> >> }

InitCacheDefaults ==
  /\ InitBulkIdle
  /\ InitTranscriptIdle
  /\ InitTransportsIdle
  /\ InitLimiterIdle
  /\ InitDirectIdle
  /\ exConfig = ExtractorConfig([retryAttempts |-> << 1 >>, retryDelay |-> 1])
  /\ ex = [c \in 1..MaxCalls |-> NewExtraction]
  /\ returned = NoReturn
  /\ \E options \in ConstructorOptions : cache = CacheService(options)

\* Half of the documented default ttl passes.
HalfHourPasses ==
  /\ now < MaxHalfHours * (DocumentedTtl \div 2) * MsPerSecond
  /\ now' = now + (DocumentedTtl \div 2) * MsPerSecond
  /\ UNCHANGED << bulkVars, rl, exVars, directVars, tsVars, trVars >>

NextCacheDefaults ==
  \/ Set(DefaultsFingerprints)
  \/ Get(DefaultsFingerprints)
  \/ HalfHourPasses

SpecCacheDefaults == InitCacheDefaults /\ [][NextCacheDefaults]_vars

\* ------------------------------------------- YouTubeTranscriptService alone

\* How many getTranscript calls the callers make, how many ids a bulk request
\* holds, how many keys the cache is configured to hold at most, and how
\* many seconds the clock runs.
MaxGetCalls == 2
MaxBulkIds == 2
MaxKeys == 2
MaxSeconds == 2

GetCallers == 1..MaxGetCalls

\* The strings callers pass as videoId: an id, a URL of the same video, and a
\* string that is neither.
TranscriptInputs == { VidA, UrlA, VidShort }

\* The (videoId, language, format) the callers of getTranscript pass.
TranscriptArgs ==
  { [videoId |-> VidA, language |-> << >>, format |-> << >>],
    [videoId |-> UrlA, language |-> << LangEn >>, format |-> << FormatJson >>],
    [videoId |-> VidShort, language |-> << LangFr >>, format |-> << FormatText >>] }

BulkRequests ==
  [videoIds : SeqsUpTo(TranscriptInputs, MaxBulkIds), language : {<< >>},
   outputFormat : {<< FormatJson >>}]

\* How a fetchTranscript call may settle.
FetchOutcomes ==
  { Resolved(TranscriptData), RejectedError("Video not found"),
    RejectedError(""), RejectedOther }

\* How a fetchTranscript call made for a single getTranscript may settle.
SomeFetchOutcomes == { Resolved(TranscriptData), RejectedError("Video not found") }

\* maxSize: a cache that is full with its first key, and a larger one.
KeyLimits == {1, MaxKeys}

Enabled == BOOLEAN

\* new YouTubeTranscriptService({ttl, maxSize, enabled})
InitTranscript ==
  /\ InitBulkIdle
  /\ InitLimiterIdle
  /\ InitExtractorIdle
  /\ InitDirectIdle
  /\ InitTransportsIdle
  /\ \E maxSize \in KeyLimits, enabled \in Enabled :
       transcriptCache = Cache(1, maxSize, enabled)
  /\ getCalls = [c \in GetCallers |-> NewGetCall]
  /\ bulkCall = NoBulkCall
  /\ fetcherCalls = << >>

nonTranscriptVars == << bulkVars, rl, exVars, directVars, trVars >>

\* A caller calls getTranscript(videoId, language, format).
GetTranscript(callers, args) ==
  /\ \E c \in callers, a \in args :
       /\ getCalls[c].pc = "new"
       /\ LET r == getTranscript(transcriptCache, a.videoId, a.language,
                                 a.format, now)
          IN /\ getCalls' = [getCalls EXCEPT ![c] = r.call]
             /\ transcriptCache' = r.cache
             /\ fetcherCalls' = fetcherCalls \o r.fetches
  /\ UNCHANGED << now, bulkCall, nonTranscriptVars >>

\* The fetchTranscript call of a getTranscript call settles.
FetchSettles(outcomes) ==
  /\ \E c \in DOMAIN getCalls, outcome \in outcomes :
       /\ getCalls[c].pc = "fetching"
       /\ LET r == fetchSettles(transcriptCache, getCalls[c], outcome, now)
          IN /\ getCalls' = [getCalls EXCEPT ![c] = r.call]
             /\ transcriptCache' = r.cache
  /\ UNCHANGED << now, bulkCall, fetcherCalls, nonTranscriptVars >>

\* A caller calls clearCache() on a cache that holds something.
ClearCache ==
  /\ transcriptCache.data # << >>
  /\ transcriptCache' = UtilCacheFlush(transcriptCache)
  /\ UNCHANGED << now, getCalls, bulkCall, fetcherCalls, nonTranscriptVars >>

\* A caller calls getBulkTranscripts(request): the loop runs up to the first
\* fetch or delay.  The catch block of lines 123-128 is never entered, since
\* getTranscript catches whatever is thrown while it handles a string.
GetBulkTranscripts(requests) ==
  /\ bulkCall.pc = "idle"
  /\ \E request \in requests :
       LET r == bulkIteration(transcriptCache,
                              [NoBulkCall EXCEPT !.request = request,
                                                 !.index = 1], now)
       IN /\ bulkCall' = r.bulk
          /\ transcriptCache' = r.cache
          /\ fetcherCalls' = fetcherCalls \o r.fetches
  /\ UNCHANGED << now, getCalls, nonTranscriptVars >>

\* The fetchTranscript call made for the current video of the bulk request
\* settles.
BulkFetchSettles(outcomes) ==
  /\ bulkCall.pc = "fetching"
  /\ \E outcome \in outcomes :
       LET r == fetchSettles(transcriptCache, bulkCall.call, outcome, now)
       IN /\ bulkCall' = afterGetTranscript([bulkCall EXCEPT !.call = r.call], now)
          /\ transcriptCache' = r.cache
  /\ UNCHANGED << now, getCalls, fetcherCalls, nonTranscriptVars >>

\* The delay after a video is over: the loop goes on with the next one.
BulkDelayDone ==
  /\ bulkCall.pc = "delaying"
  /\ now >= bulkCall.wakeAt
  /\ LET r == bulkIteration(transcriptCache,
                            [bulkCall EXCEPT !.index = @ + 1], now)
     IN /\ bulkCall' = r.bulk
        /\ transcriptCache' = r.cache
        /\ fetcherCalls' = fetcherCalls \o r.fetches
  /\ UNCHANGED << now, getCalls, nonTranscriptVars >>

\* A second passes.
SecondPasses ==
  /\ now < MaxSeconds * MsPerSecond
  /\ now' = now + MsPerSecond
  /\ UNCHANGED << tsVars, nonTranscriptVars >>

NextTranscript ==
  \/ GetTranscript(GetCallers, TranscriptArgs)
  \/ FetchSettles(SomeFetchOutcomes)
  \/ ClearCache
  \/ SecondPasses

SpecTranscript == InitTranscript /\ [][NextTranscript]_vars

NextTranscriptBulk ==
  \/ GetBulkTranscripts(BulkRequests)
  \/ BulkFetchSettles(FetchOutcomes)
  \/ BulkDelayDone
  \/ SecondPasses

SpecTranscriptBulk == InitTranscript /\ [][NextTranscriptBulk]_vars

\* ------------------------------------------------------- HTTPTransport alone

\* How many requests arrive, how long the clock runs, and the largest
\* windowMs and max of the rateLimit option.
MaxHttpRequests == 4
MaxHttpMs == 4
MaxWindowMs == 2
MaxRateLimit == 2

\* The rateLimit options: 0 stands for an option that is 0 or left out.
RateLimits == [windowMs : 0..MaxWindowMs, max : 0..MaxRateLimit]

\* new HTTPTransport({rateLimit}, logger), or one without the option
InitHttp ==
  /\ InitBulkIdle
  /\ InitLimiterIdle
  /\ InitExtractorIdle
  /\ InitDirectIdle
  /\ InitTranscriptIdle
  /\ InitServerIdle
  /\ \E rateLimit \in RateLimits : httpConfig \in {<< >>, << rateLimit >>}
  /\ requestTimestamps = << >>
  /\ httpLog = << >>

nonHttpVars == << bulkVars, rl, exVars, directVars, tsVars, mcpVars >>

\* A request arrives: the middleware is in the chain only when the rateLimit
\* option was given (lines 59-61).
HttpRequest ==
  /\ Len(httpLog) < MaxHttpRequests
  /\ IF httpConfig = << >>
       THEN /\ httpLog' = Append(httpLog, [at |-> now, status |-> 0, next |-> TRUE])
            /\ UNCHANGED requestTimestamps
       ELSE LET r == rateLimitMiddleware(httpConfig[1], requestTimestamps, now)
            IN /\ httpLog' = Append(httpLog, [at |-> now, status |-> r.status,
                                              next |-> r.next])
               /\ requestTimestamps' = r.timestamps
  /\ UNCHANGED << now, httpConfig, nonHttpVars >>

\* A millisecond passes.
HttpMsPasses ==
  /\ now < MaxHttpMs
  /\ now' = now + 1
  /\ UNCHANGED << httpVars, nonHttpVars >>

NextHttp == HttpRequest \/ HttpMsPasses

SpecHttp == InitHttp /\ [][NextHttp]_vars

\* ----------------------------------------------------------- MCPServer alone

\* How often transports are closed, and how often the application starts a
\* transport itself.
MaxCloses == 2
MaxDirectStarts == 2

TransportNames == {"stdio", "sse", "http"}
Piped == BOOLEAN
ConnectOutcomes == {"ok", "throws"}
ListenOutcomes == {"listening", "error"}
StartChoices == {<< >>} \cup { << n >> : n \in TransportNames }

\* The server as one record, and the variables after a step of it.
ServerState ==
  [transports |-> transports, stdinPiped |-> stdinPiped,
   activeTransport |-> activeTransport, emitted |-> emitted,
   failovers |-> failovers]

ServerBecomes(st) ==
  /\ transports' = st.transports
  /\ activeTransport' = st.activeTransport
  /\ emitted' = st.emitted
  /\ failovers' = st.failovers
  /\ UNCHANGED stdinPiped

Registered == { transports[i].name : i \in 1..Len(transports) }

IndexOfTransport(name) == CHOOSE i \in 1..Len(transports) : transports[i].name = name

\* The events of this kind the server has emitted.
CountEvents(events, kind) ==
  Cardinality({ i \in 1..Len(events) : events[i].event = kind })

\* How often the application has started a transport itself.
DirectStarts ==
  Cardinality({ i \in 1..Len(emitted) : emitted[i].event = "connect" })

\* A server constructed in a process whose stdin is piped or not.
InitServer ==
  /\ InitBulkIdle
  /\ InitLimiterIdle
  /\ InitExtractorIdle
  /\ InitDirectIdle
  /\ InitTranscriptIdle
  /\ InitHttpIdle
  /\ transports = << >>
  /\ stdinPiped \in Piped
  /\ activeTransport = << >>
  /\ emitted = << >>
  /\ failovers = << >>

nonServerVars == << bulkVars, rlVars, exVars, directVars, tsVars, httpVars >>

\* registerTransport(name, transport) with a transport that has not been
\* started, under a name that is not taken.
RegisterTransport(names) ==
  /\ activeTransport = << >>
  /\ \E name \in names \ Registered :
       transports' = Append(transports, [name |-> name, started |-> FALSE])
  /\ UNCHANGED << stdinPiped, activeTransport, emitted, failovers, nonServerVars >>

\* The application calls start() on a registered transport itself, and the
\* transport emits 'connect', which the server does not listen to.
TransportStart ==
  /\ DirectStarts < MaxDirectStarts
  /\ \E i \in 1..Len(transports) :
       /\ ~transports[i].started
       /\ \A f \in 1..Len(failovers) :
            failovers[f].pc = "starting" => failovers[f].pos # i
       /\ transports' = [transports EXCEPT ![i].started = TRUE]
       /\ emitted' = Append(emitted, [event |-> "connect",
                                      name |-> transports[i].name, message |-> ""])
  /\ UNCHANGED << stdinPiped, activeTransport, failovers, nonServerVars >>

\* server.start(transportName?): the transport is looked up or selected and
\* becomes activeTransport; then the server is connected and the transport
\* started.  Whatever fails after the assignment leaves activeTransport set.
ServerStart(choices, connects, listens) ==
  /\ activeTransport = << >>
  /\ CountEvents(emitted, "start") = 0
  /\ \E choice \in choices, connect \in connects, listen \in listens :
       LET picked == IF choice = << >> THEN selectTransport(ServerState)
                     ELSE IF choice[1] \in Registered THEN choice ELSE << >>
       IN /\ picked # << >>
          /\ activeTransport' = picked
          /\ LET i == IndexOfTransport(picked[1])
             IN IF connect = "ok" /\ ~transports[i].started
                     /\ (picked[1] = "stdio" \/ listen = "listening")
                  THEN /\ transports' = [transports EXCEPT ![i].started = TRUE]
                       /\ emitted' = Append(emitted, StartEvent)
                  ELSE UNCHANGED << transports, emitted >>
  /\ UNCHANGED << stdinPiped, failovers, nonServerVars >>

\* A started transport closes and emits 'close'.
TransportCloses ==
  /\ CountEvents(emitted, "transport:close") < MaxCloses
  /\ \E i \in 1..Len(transports) :
       /\ transports[i].started
       /\ ServerBecomes(onClose([ServerState EXCEPT !.transports[i].started = FALSE],
                                 transports[i].name))
  /\ UNCHANGED nonServerVars

\* The server.connect a failover() awaits settles.
ConnectSettles(outcomes) ==
  /\ \E f \in 1..Len(failovers), outcome \in outcomes :
       /\ failovers[f].pc = "connecting"
       /\ ServerBecomes(connectSettles(ServerState, f, outcome))
  /\ UNCHANGED nonServerVars

\* The listen() of the transport a failover() starts settles.
ListenSettles(outcomes) ==
  /\ \E f \in 1..Len(failovers), outcome \in outcomes :
       /\ failovers[f].pc = "starting"
       /\ ServerBecomes(listenSettles(ServerState, f, outcome))
  /\ UNCHANGED nonServerVars

NextServer ==
  \/ RegisterTransport(TransportNames)
  \/ TransportStart
  \/ ServerStart(StartChoices, ConnectOutcomes, ListenOutcomes)
  \/ TransportCloses
  \/ ConnectSettles(ConnectOutcomes)
  \/ ListenSettles(ListenOutcomes)

SpecServer == InitServer /\ [][NextServer]_vars

\* ------------------------------------------------------------ bulk claims

Settled(v) == task[v].pc \in {"resolved", "rejected"}

InFlight == { v \in DOMAIN task : task[v].pc \in {"extracting", "delaying", "throwing"} }

Queued == { v \in DOMAIN task : task[v].pc = "queued" }

RowsOf(v) == { i \in 1..Len(results) : results[i].videoId = v }

\* The position of the first occurrence of x in s.
FirstIndex(s, x) == CHOOSE i \in 1..Len(s) : s[i] = x /\ \A j \in 1..(i - 1) : s[j] # x

C3_CallsState ==
  \A v \in DOMAIN task :
    /\ task[v].calls <= bulkOpts.retryAttempts
    /\ task[v].calls = (IF task[v].pc = "queued" \/ bulkOpts.retryAttempts < 1
                          THEN 0 ELSE task[v].attempt)
    /\ (task[v].pc = "delaying" =>
          /\ task[v].outcome \in ErrorCodes \ nonRetryableCodes
          /\ task[v].calls < bulkOpts.retryAttempts)
    /\ (Settled(v) /\ bulkOpts.retryAttempts >= 1 =>
          /\ task[v].calls >= 1
          /\ \/ task[v].outcome = "ok"
             \/ task[v].outcome \in nonRetryableCodes
             \/ task[v].calls = bulkOpts.retryAttempts)

\* Once an item is recorded the Extractor is not called for it again.
C3_NoCallAfterRecord ==
  \A v \in DOMAIN task :
    Settled(v) => /\ v \in DOMAIN task'
                  /\ task'[v].calls = task[v].calls
                  /\ Settled(v)'

C8_Deduplicated ==
  bulkPc # "idle" =>
    LET ids == Range(bulkOpts.videoIds)
    IN /\ Range(uniqueVideoIds) = ids
       /\ Len(uniqueVideoIds) = Cardinality(ids)
       /\ \A i, j \in 1..Len(uniqueVideoIds) :
            i < j => FirstIndex(bulkOpts.videoIds, uniqueVideoIds[i])
                       < FirstIndex(bulkOpts.videoIds, uniqueVideoIds[j])
       /\ progress.total = Cardinality(ids)
       /\ DOMAIN task = ids
       /\ Len(limit.queue) = Cardinality(Queued)
       /\ Range(limit.queue) = Queued
       /\ \A v \in ids : Cardinality(RowsOf(v)) <= 1
       /\ \A v \in ids : task[v].calls <= bulkOpts.retryAttempts
       /\ (bulkPc = "resolved" => Len(results) = Cardinality(ids))

\* The run over [A, A, B] resolved with two rows.
C8_Witness ==
  /\ bulkOpts.videoIds = <<VidA, VidA, VidB>>
  /\ bulkPc = "resolved"
  /\ progress.total = 2
  /\ Len(results) = 2

\* C9: at every moment of a run with pool size c at most c items are in
\* flight, and no item waits while a slot is free: when an in-flight item
\* settles, whichever it is, the oldest waiting item starts in the same step.
C9_PoolState ==
  bulkPc # "idle" =>
    /\ Cardinality(InFlight) <= bulkOpts.concurrency
    /\ limit.activeCount = Cardinality(InFlight)
    /\ (Queued # {} => Cardinality(InFlight) = bulkOpts.concurrency)

C9_SlotHandedOver ==
  \A v \in InFlight :
    (Settled(v)' /\ Queued # {}) =>
      /\ Head(limit.queue) \in InFlight'
      /\ limit'.queue = Tail(limit.queue)

C9_BoundedConcurrency == []C9_PoolState /\ [][C9_SlotHandedOver]_vars

\* With pool size 2 the second of three items settled first and the third
\* item runs beside the first.
C9_Witness ==
  /\ bulkOpts.concurrency = 2
  /\ Len(uniqueVideoIds) = 3
  /\ Len(results) = 1
  /\ results[1].videoId = uniqueVideoIds[2]
  /\ InFlight = {uniqueVideoIds[1], uniqueVideoIds[3]}

\* The success rows among the first k rows.
SucceededIn(k) == { i \in 1..k : results[i].success }

\* C15: a non-throwing onProgress has been invoked once for every item
\* recorded so far, in the order the items were recorded; the k-th snapshot
\* counts the first k rows (completed the successes, failed the failures,
\* so completed + failed = k) and reports total = the number of unique
\* ids; once the run has resolved there is one snapshot per unique id and
\* the last one reports completed + failed = total.
C15_Snapshots ==
  (bulkPc # "idle" /\ bulkOpts.onProgress = "returns") =>
    /\ Len(snapshots) = Len(results)
    /\ \A i, j \in 1..Len(results) : i # j => results[i].videoId # results[j].videoId
    /\ \A k \in 1..Len(snapshots) :
         /\ snapshots[k].completed = Cardinality(SucceededIn(k))
         /\ snapshots[k].completed + snapshots[k].failed = k
         /\ snapshots[k].total = Cardinality(Range(bulkOpts.videoIds))
    /\ bulkPc = "resolved" =>
         /\ Len(snapshots) = Cardinality(Range(bulkOpts.videoIds))
         /\ Len(snapshots) > 0 =>
              snapshots[Len(snapshots)].completed + snapshots[Len(snapshots)].failed
                = snapshots[Len(snapshots)].total

\* The callback is invoked in the step in which an item settles, once, and
\* in no other step; earlier snapshots stay as they were.
C15_InvokedOnSettle ==
  (bulkPc = "running" /\ bulkOpts.onProgress = "returns") =>
    /\ SubSeq(snapshots', 1, Len(snapshots)) = snapshots
    /\ Len(snapshots') - Len(snapshots)
         = Cardinality({ v \in DOMAIN task : ~Settled(v) /\ Settled(v)' })
    /\ Len(snapshots') - Len(snapshots) <= 1

C15_ProgressPerItem == []C15_Snapshots /\ [][C15_InvokedOnSettle]_vars

\* Three items with pool size 2: the second item was recorded first, a
\* failure, and the callback saw 1, 2 and 3 items done.
C15_Witness ==
  /\ bulkOpts.onProgress = "returns"
  /\ bulkOpts.concurrency = 2
  /\ bulkPc = "resolved"
  /\ Len(uniqueVideoIds) = 3
  /\ results[1].videoId = uniqueVideoIds[2]
  /\ Len(snapshots) = 3
  /\ snapshots[1].failed = 1 /\ snapshots[1].completed = 0
  /\ snapshots[2].failed = 1 /\ snapshots[2].completed = 1
  /\ snapshots[3].failed = 2 /\ snapshots[3].completed = 1

\* C17: an item ends as succeeded or as failed, once: no video id has two
\* rows, none has both a success row and a failure row, and completed +
\* failed never exceeds total, whatever the onProgress callback does.
C17_TerminalOnce ==
  bulkPc # "idle" =>
    /\ \A v \in DOMAIN task : Cardinality(RowsOf(v)) <= 1
    /\ progress.completed + progress.failed <= progress.total

\* The six error kinds said to be terminal: invalid identifier, not found,
\* private, deleted, age-restricted, no transcript available.
SixTerminalCodes ==
  { "INVALID_VIDEO_ID", "VIDEO_NOT_FOUND", "PRIVATE_VIDEO", "DELETED_VIDEO",
    "AGE_RESTRICTED", "TRANSCRIPT_NOT_AVAILABLE" }

\* C26: in processBulk, an extractTranscript call that rejects with one of
\* the six terminal error kinds is the only one made for its item: the item
\* gets its success=false row at once, without a delay and a further call.
C26_TerminalStep ==
  \A v \in DOMAIN task :
    ( /\ task[v].pc = "extracting"
      /\ task'[v] # task[v]
      /\ task'[v].outcome \in SixTerminalCodes )
    => /\ task'[v].pc \in {"resolved", "rejected"}
       /\ task'[v].calls = task[v].calls
       /\ \E i \in 1..Len(results') :
            /\ results'[i].videoId = v
            /\ ~results'[i].success
            /\ i > Len(results)

C26_TerminalFailsAtOnce == [][C26_TerminalStep]_vars

\* A row as the claim describes it: a success row carries a transcript of
\* the row's video and no error, a failure row carries a non-empty error
\* message and no transcript.
WellFormedRow(r) ==
  IF r.success
    THEN /\ r.transcript # << >>
         /\ r.transcript[1].videoId = r.videoId
         /\ r.error = << >>
    ELSE /\ r.error # << >>
         /\ r.error[1] # ""
         /\ r.transcript = << >>

\* C30: every row returned by processBulk has exactly one of transcript and
\* error set: success=true rows carry a transcript whose videoId equals the
\* row's videoId and no error; success=false rows carry a non-empty error
\* message and no transcript.
C30_RowsWellFormed ==
  bulkPc = "resolved" => \A i \in 1..Len(results) : WellFormedRow(results[i])

\* C31: each object passed to onProgress is a snapshot that later item
\* completions do not change: at the end of the run every retained snapshot
\* has the completed and failed counts of its own invocation and an errors
\* list whose length equals its own failed count.
C31_SnapshotsAreFrozen ==
  bulkPc = "resolved" =>
    \A k \in 1..Len(snapshots) :
      /\ snapshots[k].completed + snapshots[k].failed = k
      /\ snapshots[k].completed = Cardinality(SucceededIn(k))
      /\ Len(SnapshotErrors(snapshots[k], progress)) = snapshots[k].failed

\* --------------------------------------------------- rate limiter claims

\* C4: with maxRequests = M and windowMs = W, at most M operations are
\* started in any interval of length W.  recentStarts holds the starts of
\* the W ticks that end now, so the claim says it never holds more than M.
C4_WindowQuota ==
  rl.updates = 0 => Len(rl.recentStarts) <= rl.options.maxRequests

CallsMade == { c \in DOMAIN rl.calls : rl.calls[c].pc # "new" }

\* C5 as stated: every call to execute eventually settles.
C5_EveryCallSettles ==
  \A c \in 1..MaxCalls :
    (rl.calls[c].pc # "new") ~> (rl.calls[c].pc = "settled")

\* A call leaves the limiter unsettled only when clearPending discards it
\* from the queue of the pool.
C5_DroppedOnlyByClearPending ==
  \A c \in DOMAIN rl.calls :
    (rl.calls[c].pc # "dropped" /\ rl'.calls[c].pc = "dropped") =>
      /\ rl.calls[c].pc = "queued"
      /\ rl' = RLClearPending(rl)

\* C5 as amended: every call to execute(fn) eventually starts fn and
\* settles with fn's own result or fn's own error, provided every started
\* operation terminates and clearPending() is not called while the call
\* waits in the queue of the pool: a call held back by the window quota or by
\* the concurrency cap is never rejected and is left unsettled only when
\* clearPending discards it.
C5_CallsSettleUnlessCleared ==
  /\ \A c \in 1..MaxCalls :
       (rl.calls[c].pc # "new") ~> (rl.calls[c].pc \in {"settled", "dropped"})
  /\ [](rl.settled.result = rl.settled.fnResult)
  /\ [][C5_DroppedOnlyByClearPending]_vars

\* With maxRequests = 1 the second call was held back by the quota, waited
\* for its delay and settled with its operation's error after the first call.
C5_Witness ==
  /\ rl.options.maxRequests = 1
  /\ rl.calls[1].pc = "settled"
  /\ rl.calls[2].pc = "settled"
  /\ rl.calls[2].wakeAt > 0
  /\ rl.settled = [call |-> 2, fnResult |-> "error", result |-> "error"]

\* The operations started through execute and not yet settled.
RunningCalls == { c \in DOMAIN rl.calls : rl.calls[c].pc = "running" }

\* C18: at every moment the operations started and not yet settled are at
\* most as many as the concurrency cap configured at that moment, also
\* after updateOptions has changed the cap.
C18_ConcurrencyCap == Cardinality(RunningCalls) <= rl.options.maxRequests

\* The calls whose operation starts on this step.
Starting == { c \in DOMAIN rl.calls : rl.calls[c].pc # "running" /\ rl'.calls[c].pc = "running" }

\* C25: a call that found the quota of its window used up is not started
\* after its backoff unless the quota is evaluated again and the window then
\* current has fewer than maxRequests starts: when its operation starts, the
\* count of the current window is below maxRequests.
C25_StartStep ==
  \A c \in Starting :
    rl.calls[c].wakeAt > 0 =>
      CountOf(rl.requestCounts, WindowOf(now, rl.options)) < rl.options.maxRequests

C25_QuotaCheckedAfterBackoff == [][C25_StartStep]_vars

\* ------------------------------------------------------- extractor claims

\* The error kinds the retry policy is said to give up on at once.
TerminalCodes ==
  { "VIDEO_NOT_FOUND", "PRIVATE_VIDEO", "DELETED_VIDEO", "AGE_RESTRICTED",
    "TRANSCRIPT_NOT_AVAILABLE" }

TransientCodes == { "TIMEOUT", "NETWORK_ERROR" }

\* The calls whose extractWithRetry is under way.
Extracting == { c \in DOMAIN ex : ex[c].pc \in {"page", "segments", "retryDelay"} }

\* C2: once an attempt of extractTranscript has failed with a terminal error
\* (video not found, private, deleted, age-restricted, no transcript), the
\* call makes no further attempt: it has rejected, so no call that is still
\* extracting carries a terminal error from an earlier attempt.
C2_TerminalNotRetried ==
  \A c \in Extracting :
    ex[c].lastError # << >> => ex[c].lastError[1].code \notin TerminalCodes

\* C19: an attempt that failed with an unclassified error (UNKNOWN) ends
\* the call: it has rejected with that error, so no call that is still
\* extracting carries an UNKNOWN error from an earlier attempt.
C19_UnknownNotRetried ==
  \A c \in Extracting :
    ex[c].lastError # << >> => ex[c].lastError[1].code # "UNKNOWN"

\* The cache holds a live entry under the key.
HoldsLive(cch, key, t) ==
  \E i \in 1..Len(cch.entries) :
    cch.entries[i].key = key /\ ~IsStale(cch, cch.entries[i], t)

\* The value the cache holds under the key.
StoredValue(cch, key) ==
  cch.entries[CHOOSE i \in 1..Len(cch.entries) : cch.entries[i].key = key].value

\* The key of videoId and lang, spelled out: the id alone when no language
\* is asked for, else the id, a colon and the language.
Fingerprint(videoId, lang) ==
  IF lang = << >> \/ lang = << << >> >> THEN videoId
  ELSE [i \in 1..(Len(videoId) + 1 + Len(lang[1])) |->
          IF i <= Len(videoId) THEN videoId[i]
          ELSE IF i = Len(videoId) + 1 THEN ":"
          ELSE lang[1][i - Len(videoId) - 1]]

\* C6: a call made while the cache holds a live entry for its fingerprint
\* resolves in the same step with exactly the stored Transcript, issues no
\* GET, and leaves the rate limiter (window counts, running and queued
\* calls) and every other call as they were.
C6_HitStep ==
  \A c \in DOMAIN ex :
    (ex[c].pc = "new" /\ ex'[c].pc # "new") =>
      LET videoId == IF ex'[c].pc = "waiting" THEN ex'[c].videoId ELSE returned'.videoId
          lang    == IF ex'[c].pc = "waiting" THEN ex'[c].lang ELSE returned'.lang
          key     == Fingerprint(videoId, lang)
      IN (isValidVideoId(videoId) /\ HoldsLive(cache, key, now)) =>
           /\ ex'[c].pc = "resolved"
           /\ returned'.call = c
           /\ returned'.result = << StoredValue(cache, key) >>
           /\ returned'.pageFetches = 0
           /\ returned'.segmentFetches = 0
           /\ rl' = rl
           /\ \A d \in DOMAIN ex \ {c} : ex'[d] = ex[d]

C6_CacheHitBypasses == [][C6_HitStep]_vars

\* A second call got the Transcript the first one had extracted and cached,
\* without entering the rate limiter.
C6_Witness ==
  /\ returned.call = 2
  /\ returned.result # << >>
  /\ returned.pageFetches = 0
  /\ rl.calls[1].pc = "settled"
  /\ rl.calls[2].pc = "new"
  /\ HoldsLive(cache, Fingerprint(returned.videoId, returned.lang), now)
  /\ StoredValue(cache, Fingerprint(returned.videoId, returned.lang)) = returned.result[1]

\* The Transcript a successful extraction of videoId with lang yields at
\* some tick up to t.
ExtractedFor(value, videoId, lang, t) ==
  /\ DOMAIN value = {"videoId", "language", "isAutoGenerated", "segments", "fetchedAt"}
  /\ value.videoId = videoId
  /\ \E i \in 1..Len(PageTracks) :
       /\ << PageTracks[i] >> = selectCaptionTrack(PageTracks, lang)
       /\ value.language = PageTracks[i].languageCode
       /\ value.isAutoGenerated = (PageTracks[i].kind = "asr")
  /\ value.segments = Segments
  /\ value.fetchedAt \in 0..t

\* The keys and values of the live entries.
LiveContents(cch, t) ==
  { [key |-> cch.entries[i].key, value |-> cch.entries[i].value] :
      i \in { j \in 1..Len(cch.entries) : ~IsStale(cch, cch.entries[j], t) } }

\* Every cache entry holds a complete Transcript of a successful extraction
\* for the video and the language of its key.
C7_EntriesAreTranscripts ==
  \A i \in 1..Len(cache.entries) :
    \E videoId \in Videos, lang \in Langs :
      /\ cache.entries[i].key = Fingerprint(videoId, lang)
      /\ ExtractedFor(cache.entries[i].value, videoId, lang, now)

\* A step in which a call rejects leaves the cache as it was, a step in
\* which a call starts to wait leaves its live contents as they were, and
\* an entry comes into the cache only as the Transcript that the call
\* settled in this step has extracted, under the key of that call.
C7_CacheStep ==
  /\ returned'.error # << >> => cache' = cache
  /\ (\E c \in DOMAIN ex : ex[c].pc = "new" /\ ex'[c].pc = "waiting") =>
       LiveContents(cache', now) = LiveContents(cache, now)
  /\ \A e \in LiveContents(cache', now') \ LiveContents(cache, now) :
       /\ returned'.result = << e.value >>
       /\ returned'.pageFetches > 0
       /\ returned'.segmentFetches > 0
       /\ e.key = Fingerprint(returned'.videoId, returned'.lang)

\* C7: whatever mix of successes, retried attempts and failures the calls
\* go through, every cache entry is the complete Transcript returned by a
\* successful extraction for the videoId and language of its key, and a
\* call that rejects leaves the cache unchanged.
C7_CacheHoldsOnlySuccesses == []C7_EntriesAreTranscripts /\ [][C7_CacheStep]_vars

\* A call has just rejected after a retried attempt, next to a cache that
\* holds the Transcript of an earlier call.
C7_Witness ==
  /\ returned.error # << >>
  /\ returned.pageFetches = 2
  /\ cache.entries # << >>
  /\ rl.calls[1].pc = "settled"
  /\ rl.calls[2].pc = "settled"

\* Where extractWithRetry stands: a waiting retry has an attempt left, the
\* attempts made are the page GETs issued, and a call that gave up on a
\* transient error has used every attempt.
C10_AttemptsState ==
  /\ \A c \in Extracting :
       /\ ex[c].attempt = ex[c].pageFetches
       /\ ex[c].attempt <= exConfig.retryAttempts
       /\ ex[c].pc = "retryDelay" => ex[c].attempt < exConfig.retryAttempts
  /\ (returned.error # << >> /\ returned.error[1].code \in TransientCodes) =>
       returned.attempt = exConfig.retryAttempts

\* What a step of a call does: an attempt that is not the last one never
\* rejects the call, its failure leads to the retry delay; the delay leads
\* to the next attempt with one more page GET; and an attempt that succeeds
\* resolves the call at once with a Transcript that the cache then holds.
C10_AttemptStep ==
  \A c \in Extracting :
    /\ (ex[c].pc \in {"page", "segments"} /\ ex[c].attempt < exConfig.retryAttempts) =>
          /\ ex'[c].pc # "rejected"
          /\ ex'[c].pc = "retryDelay" =>
                /\ ex'[c].attempt = ex[c].attempt
                /\ ex'[c].lastError # << >>
    /\ (ex[c].pc = "retryDelay" /\ ex'[c] # ex[c]) =>
          /\ ex'[c].pc = "page"
          /\ ex'[c].attempt = ex[c].attempt + 1
          /\ ex'[c].pageFetches = ex[c].pageFetches + 1
    /\ ex'[c].pc = "resolved" =>
          /\ returned'.call = c
          /\ returned'.attempt = ex[c].attempt
          /\ returned'.pageFetches = ex[c].attempt
          /\ returned'.result # << >>
          /\ ExtractedFor(returned'.result[1], ex[c].videoId, ex[c].lang, now)
          /\ HoldsLive(cache', Fingerprint(ex[c].videoId, ex[c].lang), now)
          /\ StoredValue(cache', Fingerprint(ex[c].videoId, ex[c].lang))
                = returned'.result[1]

\* C10: with retryAttempts = n, a call whose attempts 1..k fail with a
\* transient error (k < n) and whose attempt k+1 succeeds resolves with a
\* Transcript after exactly k+1 attempts, and the cache holds the Transcript.
C10_RetriesUntilSuccess == []C10_AttemptsState /\ [][C10_AttemptStep]_vars

\* retryAttempts = 3: the call has just resolved on its third attempt, the
\* one before having timed out, and the cache holds its Transcript.
C10_Witness ==
  /\ exConfig.retryAttempts = 3
  /\ returned.result # << >>
  /\ returned.attempt = 3
  /\ returned.pageFetches = 3
  /\ returned.lastError = << TranscriptError("TIMEOUT") >>
  /\ StoredValue(cache, Fingerprint(returned.videoId, returned.lang)) = returned.result[1]

\* A waiting retry: it has an attempt left, and what is left of its delay is
\* no more than attempt * retryDelay.
C27_DelayState ==
  \A c \in Extracting :
    ex[c].pc = "retryDelay" =>
      /\ ex[c].attempt < exConfig.retryAttempts
      /\ now <= ex[c].wakeAt
      /\ ex[c].wakeAt - now <= ex[c].attempt * exConfig.retryDelay

\* What a step does to the delay of a call: the failure of attempt k starts
\* a delay that ends k * retryDelay later, the delay end is left alone while
\* the call waits, the next attempt starts at the tick the delay ends, and
\* the failure of the last attempt rejects the call in the same step.
C27_DelayStep ==
  \A c \in DOMAIN ex :
    /\ (ex[c].pc \in {"page", "segments"} /\ ex'[c].pc = "retryDelay") =>
          /\ ex'[c].wakeAt = now + ex[c].attempt * exConfig.retryDelay
          /\ ex'[c].attempt = ex[c].attempt
          /\ now' = now
    /\ (ex[c].pc = "retryDelay" /\ ex'[c].pc = "retryDelay") =>
          ex'[c].wakeAt = ex[c].wakeAt
    /\ (ex[c].pc = "retryDelay" /\ ex'[c].pc # "retryDelay") =>
          /\ ex'[c].pc = "page"
          /\ ex'[c].attempt = ex[c].attempt + 1
          /\ now = ex[c].wakeAt
    /\ (/\ ex[c].pc \in {"page", "segments"}
        /\ ex[c].attempt = exConfig.retryAttempts
        /\ ex'[c].pc \notin {"page", "segments", "resolved"}) =>
          /\ ex'[c].pc = "rejected"
          /\ returned'.call = c
          /\ returned'.error # << >>
          /\ now' = now

\* C27: in extractWithRetry, after failed attempt k with k < retryAttempts
\* the extractor waits exactly k * retryDelay before attempt k+1, and after
\* the final failed attempt it waits for nothing before rejecting.
C27_LinearRetryDelay == []C27_DelayState /\ [][C27_DelayStep]_vars

\* retryAttempts = 3 and retryDelay = 2: a call has just rejected at tick 6,
\* after three failed attempts and delays of 2 and of 4 ticks, and nothing
\* after the third failure.
C27_Witness ==
  /\ exConfig.retryAttempts = 3
  /\ exConfig.retryDelay = 2
  /\ returned.error # << >>
  /\ returned.attempt = 3
  /\ returned.pageFetches = 3
  /\ now = 6

\* The errors an attempt can fail with while it waits for the watch page
\* (pc "page") or for the caption track (pc "segments").
FailuresAt(pc) ==
  IF pc = "page"
    THEN { PageError(r)[1] : r \in { q \in PageResponses : PageError(q) # << >> } }
           \cup { [code |-> "TRANSCRIPT_NOT_AVAILABLE",
                   message |-> "No suitable transcript found for specified language"] }
    ELSE { SegmentError(r)[1] :
             r \in { q \in SegmentResponses : SegmentError(q) # << >> } }

\* No call makes more attempts than retryAttempts, and a call that rejected
\* out of extractWithRetry did so with the error its last attempt left.
C28_AttemptsState ==
  /\ \A c \in DOMAIN ex :
       /\ ex[c].attempt <= exConfig.retryAttempts
       /\ ex[c].pageFetches <= exConfig.retryAttempts
       /\ ex[c].segmentFetches <= ex[c].pageFetches
  /\ returned.pageFetches <= exConfig.retryAttempts
  /\ (returned.error # << >> /\ returned.attempt >= 1) =>
       /\ returned.attempt = exConfig.retryAttempts
       /\ returned.lastError = returned.error

\* The step on which a call rejects out of an attempt: the error is one that
\* the GET the attempt was waiting for can fail with.  Every call is made
\* against a cache that holds nothing.
C28_RejectStep ==
  \A c \in DOMAIN ex :
    /\ (ex[c].pc \in {"page", "segments"} /\ ex'[c].pc = "rejected") =>
          /\ returned'.call = c
          /\ returned'.error # << >>
          /\ returned'.error[1] \in FailuresAt(ex[c].pc)
    /\ (ex[c].pc = "new" /\ ex'[c].pc # "new") => cache.entries = << >>

\* With retryAttempts >= 1, a call that has returned made an attempt.
C28_AnyCallAttempts ==
  (returned.call # 0 /\ exConfig.retryAttempts >= 1) => returned.pageFetches >= 1

\* The same for the calls with a valid video id.
C28_ValidCallAttempts ==
  (/\ returned.call # 0
   /\ exConfig.retryAttempts >= 1
   /\ isValidVideoId(returned.videoId)) => returned.pageFetches >= 1

\* C28, as stated: one extractTranscript call makes at most retryAttempts
\* extraction attempts, and when every attempt fails it rejects with the
\* classified error of the last attempt, not of an earlier one; with
\* retryAttempts >= 1 and a cold cache it makes at least one attempt.
C28_BoundedAttempts ==
  /\ [](C28_AttemptsState /\ C28_AnyCallAttempts)
  /\ [][C28_RejectStep]_vars

\* C28, with the last part for valid video ids only: a call with an invalid
\* video id rejects before extractWithRetry and makes no attempt.
C28_BoundedAttemptsOfValidIds ==
  /\ [](C28_AttemptsState /\ C28_ValidCallAttempts)
  /\ [][C28_RejectStep]_vars

\* retryAttempts = 2: a call has just rejected with PRIVATE_VIDEO, which only
\* a watch page gives, after one attempt that failed on the caption track
\* and one that failed on the watch page.
C28_Witness ==
  /\ exConfig.retryAttempts = 2
  /\ returned.error # << >>
  /\ returned.error[1].code = "PRIVATE_VIDEO"
  /\ returned.attempt = 2
  /\ returned.pageFetches = 2
  /\ returned.segmentFetches = 1

\* What a call with an invalid video id does in the step in which it is
\* made: it rejects with INVALID_VIDEO_ID without a GET, and the cache, the
\* rate limiter (window counts, running and queued calls) and every other
\* call are left as they were.
C29_InvalidIdStep ==
  \A c \in DOMAIN ex :
    (ex[c].pc = "new" /\ ex'[c].pc # "new") =>
      LET videoId == IF ex'[c].pc = "waiting" THEN ex'[c].videoId ELSE returned'.videoId
      IN ~isValidVideoId(videoId) =>
           /\ ex'[c].pc = "rejected"
           /\ returned'.call = c
           /\ returned'.result = << >>
           /\ returned'.error = << TranscriptError("INVALID_VIDEO_ID") >>
           /\ returned'.pageFetches = 0
           /\ returned'.segmentFetches = 0
           /\ cache' = cache
           /\ rl' = rl
           /\ now' = now
           /\ \A d \in DOMAIN ex \ {c} : ex'[d] = ex[d]

\* C29: extractTranscript with a video id that is not exactly 11 characters
\* of [a-zA-Z0-9_-] rejects with INVALID_VIDEO_ID before the cache is read,
\* before the rate limiter is entered and before any network call: cache
\* contents, the window request counter and the in-flight count are
\* unchanged by the call, even if the cache holds an entry under that string.
C29_InvalidIdRejectedFirst == [][C29_InvalidIdStep]_vars

\* A call has just rejected with INVALID_VIDEO_ID for a string under which
\* the cache holds a live entry, in a window that has counted a request.
C29_Witness ==
  /\ returned.error = << TranscriptError("INVALID_VIDEO_ID") >>
  /\ returned.videoId = VidAKeyEn
  /\ returned.lang = << >>
  /\ HoldsLive(cache, generateKey(returned.videoId, returned.lang), now)
  /\ rl.requestCounts # << >>

RECURSIVE SumCounts(_, _)
\* The sum of the request counts of the windows ws.
SumCounts(requestCounts, ws) ==
  IF ws = {} THEN 0
  ELSE LET w == CHOOSE x \in ws : TRUE
       IN requestCounts[w] + SumCounts(requestCounts, ws \ {w})

\* The requests the limiter has counted, over all windows it remembers.
RequestsCounted(st) == SumCounts(st.requestCounts, DOMAIN st.requestCounts)

\* The calls that hold a slot of the pool: their function has been started
\* and has not settled.
InExtractWithRetry ==
  { c \in DOMAIN ex : ex[c].pc \in {"page", "segments", "retryDelay", "throwing"} }

\* A call is inside extractWithRetry, sleeping between attempts included,
\* exactly while it runs in the pool; the pool counts these calls and no
\* others; and until the limiter first forgets old windows, it has counted
\* one request for each call that entered the pool, whatever the number of
\* attempts the call has made.
C34_SlotState ==
  /\ InExtractWithRetry = RunningCalls
  /\ rl.limiters[1].activeCount = Cardinality(RunningCalls)
  /\ Cardinality(RunningCalls) <= rl.options.maxRequests
  /\ rl.cleanupAt = rl.intervalMs =>
       RequestsCounted(rl) =
         Cardinality({ c \in DOMAIN rl.calls : rl.calls[c].pc \in {"running", "settled"} })

\* The count goes up by one for each call the pool starts in the step and
\* in no other step (it drops only when old windows are forgotten); a call
\* that stays inside extractWithRetry keeps its slot, and the step to its
\* next attempt leaves the limiter as it was.
C34_AdmissionStep ==
  /\ rl'.cleanupAt = rl.cleanupAt =>
       RequestsCounted(rl') - RequestsCounted(rl) = Cardinality(Starting)
  /\ RequestsCounted(rl') - RequestsCounted(rl) <= Cardinality(Starting)
  /\ \A c \in InExtractWithRetry :
       /\ c \notin Starting
       /\ ex'[c].pc \in {"page", "segments", "retryDelay"} =>
            rl'.calls[c] = rl.calls[c]
       /\ (ex[c].pc = "retryDelay" /\ ex'[c].pc = "page") =>
            /\ ex'[c].attempt = ex[c].attempt + 1
            /\ rl' = rl

\* C34: rate-limiter admission is taken once per cache-missing
\* extractTranscript call, not once per network attempt: the window request
\* counter increases by exactly 1 for the call however many retry attempts
\* it makes, and the call occupies one concurrency slot from its first
\* attempt until it settles, including while it sleeps between retries.
C34_AdmittedOncePerCall == []C34_SlotState /\ [][C34_AdmissionStep]_vars

\* maxRequests = 1: a call is in its second attempt, counted once, and the
\* other call waits in the queue of the pool for its slot.
C34_Witness ==
  /\ rl.options.maxRequests = 1
  /\ \E c, d \in DOMAIN ex :
       /\ ex[c].pc = "page"
       /\ ex[c].attempt = 2
       /\ rl.calls[c].pc = "running"
       /\ rl.calls[d].pc = "queued"
  /\ RequestsCounted(rl) = 1

\* ------------------------------------------- claims on single methods

\* The language asked for: none when the option is absent or empty.
Requested(lang) == lang # << >> /\ Len(lang[1]) > 0

HasPrefix(code, prefix) ==
  \E n \in 0..Len(code) : [i \in 1..n |-> code[i]] = prefix

\* The rule of a track under the priority: 1 its code is the language asked
\* for, 2 its code starts with it, 3 it is manual, 4 anything else.
Rank(track, lang) ==
  IF Requested(lang) /\ track.languageCode = lang[1] THEN 1
  ELSE IF Requested(lang) /\ HasPrefix(track.languageCode, lang[1]) THEN 2
  ELSE IF track.kind # "asr" THEN 3
  ELSE 4

\* C11: for every non-empty track list and every optional requested
\* language, selectCaptionTrack returns a track of the list: the first whose
\* code equals the language, else the first whose code starts with it, else
\* the first manual track, else the first track.  So no track of the list
\* comes under an earlier rule than the one returned, and no track before
\* it comes under the same rule.
C11_SelectionPriority ==
  (directCall.method = "selectCaptionTrack" /\ directCall.tracks # << >>) =>
    LET tracks == directCall.tracks
        lang   == directCall.lang
    IN /\ directResult[1] # << >>
       /\ \E i \in 1..Len(tracks) :
            /\ directResult[1] = << tracks[i] >>
            /\ \A j \in 1..Len(tracks) :
                 Rank(tracks[j], lang) >= Rank(tracks[i], lang)
            /\ \A j \in 1..(i - 1) :
                 Rank(tracks[j], lang) > Rank(tracks[i], lang)

\* [{en-US, manual}, {en, auto-generated}] with en returned the en track.
C11_Witness ==
  /\ directCall = [method |-> "selectCaptionTrack",
                   tracks |-> << [languageCode |-> LangEnUS, kind |-> ""],
                                 [languageCode |-> LangEn, kind |-> "asr"] >>,
                   lang |-> << LangEn >>]
  /\ directResult = << << [languageCode |-> LangEn, kind |-> "asr"] >> >>

\* The error of line 143.
NoSuitableTranscript ==
  [code |-> "TRANSCRIPT_NOT_AVAILABLE",
   message |-> "No suitable transcript found for specified language"]

\* The language codes of the tracks.
LanguagesOf(tracks) == { tracks[i].languageCode : i \in 1..Len(tracks) }

\* The language has a track, exactly or by prefix.
Available(tracks, lang) ==
  \E i \in 1..Len(tracks) : StartsWith(tracks[i].languageCode, lang[1])

\* selectCaptionTrack returns null for the empty list and for no other, and
\* what it returns is one of the tracks; no call fails, or has had an
\* attempt fail, for want of a suitable track.
C33_SomeTrackSelected ==
  /\ directCall.method = "selectCaptionTrack" =>
       /\ directResult[1] = << >> <=> directCall.tracks = << >>
       /\ directResult[1] # << >> =>
            \E i \in 1..Len(directCall.tracks) :
              directResult[1] = << directCall.tracks[i] >>
  /\ returned.error # << NoSuitableTranscript >>
  /\ \A c \in DOMAIN ex : ex[c].lastError # << NoSuitableTranscript >>

\* A call for a language the page has no track in, whose caption GET
\* succeeds, resolves with a Transcript in a language of the page, which the
\* cache then holds under the fingerprint of the language asked for.
C33_FallbackStep ==
  \A c \in DOMAIN ex :
    (/\ ex[c].pc = "segments"
     /\ ex'[c].pc = "resolved"
     /\ Truthy(ex[c].lang)
     /\ ~Available(PageTracks, ex[c].lang)) =>
       /\ returned'.result # << >>
       /\ returned'.result[1].language \in LanguagesOf(PageTracks)
       /\ returned'.result[1].language # ex[c].lang[1]
       /\ HoldsLive(cache', Fingerprint(ex[c].videoId, ex[c].lang), now)
       /\ StoredValue(cache', Fingerprint(ex[c].videoId, ex[c].lang))
            = returned'.result[1]

\* C33: selectCaptionTrack returns no track only when the track list is
\* empty: for every non-empty list and every requested language, including
\* one matching no track exactly or by prefix, some track is selected, so a
\* request for an unavailable language yields a Transcript in another
\* language that is cached under the requested-language fingerprint, and
\* the 'No suitable transcript found for specified language' failure is
\* never raised.
C33_AlwaysSomeTrack == []C33_SomeTrackSelected /\ [][C33_FallbackStep]_vars

\* A call for German on a page with an auto-generated en-US and a manual fr
\* track has just resolved with the French transcript, which the cache
\* holds under the German fingerprint.
C33_Witness ==
  /\ returned.lang = << LangDe >>
  /\ returned.result # << >>
  /\ returned.result[1].language = LangFr
  /\ HoldsLive(cache, Fingerprint(returned.videoId, << LangDe >>), now)
  /\ StoredValue(cache, Fingerprint(returned.videoId, << LangDe >>))
       = returned.result[1]

\* ---------------------------------------------------------- cache claims

\* The step is a call of the method (the clock stands still in it).
Calls(method) == directCall'.method = method /\ now' = now

\* The key of the fingerprint the call is for.
CalledKey == Fingerprint(directCall'.videoId, directCall'.lang)

\* The key, of those the cache holds, that was set or fetched least
\* recently.
LeastRecentlyUsed == cacheUse[1].key

\* C12: the cache never holds more than maxSize entries, whatever sequence
\* of set, get, has, delete and clear is made.
C12_SizeBounded == Len(cache.entries) <= cache.max

\* A set of a fingerprint the full cache does not hold removes exactly the
\* least recently used entry; any other set removes none; either way the
\* fingerprint is held afterwards.  get, has, delete and clear add no entry,
\* and get returns nothing for a fingerprint the cache does not hold.
C12_Step ==
  /\ Calls("set") =>
       /\ CalledKey \in KeysOf(cache')
       /\ IF CalledKey \notin KeysOf(cache) /\ Len(cache.entries) = cache.max
            THEN KeysOf(cache') = (KeysOf(cache) \ {LeastRecentlyUsed}) \cup {CalledKey}
            ELSE KeysOf(cache') = KeysOf(cache) \cup {CalledKey}
  /\ now' = now /\ directCall'.method \in {"get", "has", "delete", "clear"} =>
       KeysOf(cache') \subseteq KeysOf(cache)
  /\ Calls("get") /\ CalledKey \notin KeysOf(cache) => directResult' = << << >> >>

C12_BoundedLruEviction == []C12_SizeBounded /\ [][C12_Step]_vars

\* maxSize = 2 and no time has passed: the set of a third fingerprint has
\* just taken out the one set first and left the one set second.
C12_Witness ==
  /\ cache.max = 2
  /\ now = 0
  /\ directCall = [method |-> "set", videoId |-> VidB, lang |-> << >>]
  /\ directResult = << [held |-> FALSE, dropped |-> {Fingerprint(VidA, << >>)}] >>
  /\ cacheUse = << [key |-> Fingerprint(VidA, << LangEn >>), setAt |-> 0, touchedAt |-> 0],
                   [key |-> Fingerprint(VidB, << >>), setAt |-> 0, touchedAt |-> 0] >>
  /\ KeysOf(cache) = {Fingerprint(VidA, << LangEn >>), Fingerprint(VidB, << >>)}

\* The keys cacheUse has a record of.
UsedKeys == { cacheUse[i].key : i \in 1..Len(cacheUse) }

\* C13 as stated: get never returns an entry that was set more than the ttl
\* ago, whatever get or has calls were made on it since.
C13_InsertionStep ==
  (Calls("get") /\ directResult'[1] # << >> /\ CalledKey \in UsedKeys) =>
     now - UseOf(cacheUse, CalledKey).setAt <= TtlMs(cache)

C13_TtlFromInsertion == [][C13_InsertionStep]_vars

\* get returns the entry of a fingerprint exactly when the cache holds one
\* that was set, or found by get or has, no more than the ttl ago; an entry
\* older than that is reported absent and is gone after the get.  has
\* removes nothing and starts the age again only of an entry it found, one
\* no older than the ttl.
C13_TouchStep ==
  LET live == /\ CalledKey \in UsedKeys
              /\ now - UseOf(cacheUse, CalledKey).touchedAt <= TtlMs(cache)
  IN /\ Calls("get") =>
          IF live
            THEN /\ CalledKey \in KeysOf(cache)
                 /\ directResult' = << << StoredValue(cache, CalledKey) >> >>
            ELSE /\ directResult' = << << >> >>
                 /\ CalledKey \notin KeysOf(cache')
     /\ (now' = now /\ directCall'.method = "has") =>
          /\ KeysOf(cache') = KeysOf(cache)
          /\ \A k \in UsedKeys :
               UseOf(cacheUse', k).touchedAt # UseOf(cacheUse, k).touchedAt =>
                 /\ directResult' = << TRUE >>
                 /\ now - UseOf(cacheUse, k).touchedAt <= TtlMs(cache)

\* C13 as amended: the age of an entry counts from its latest set or its
\* latest hit by get or has, not from its insertion.
C13_TtlFromLastTouch == [][C13_TouchStep]_vars

\* Two ttl after it was set, get has just returned an entry that an earlier
\* get had found in between.
C13_Witness ==
  /\ directCall.method = "get"
  /\ directResult[1] # << >>
  /\ now = 2 * TtlMs(cache)
  /\ directResult[1][1].fetchedAt = 0
  /\ UseOf(cacheUse, Fingerprint(directCall.videoId, directCall.lang)).setAt = 0
  /\ UseOf(cacheUse, Fingerprint(directCall.videoId, directCall.lang)).touchedAt = now

\* C14: the cache holds at most one entry per fingerprint, every entry
\* under the key of a fingerprint with a Transcript stored for it, and two
\* different fingerprints never have the same key.
C14_OnePerFingerprint ==
  /\ \A i, j \in 1..Len(cache.entries) :
       i # j => cache.entries[i].key # cache.entries[j].key
  /\ \A f, g \in CacheFingerprints :
       f # g => generateKey(f[1], f[2]) # generateKey(g[1], g[2])
  /\ \A i \in 1..Len(cache.entries) :
       \E f \in CacheFingerprints :
         /\ cache.entries[i].key = Fingerprint(f[1], f[2])
         /\ cache.entries[i].value
              = CacheValue(f[1], f[2], cache.entries[i].value.fetchedAt)
         /\ cache.entries[i].value.fetchedAt <= now

\* A set for a fingerprint the cache holds replaces its value and leaves the
\* number of entries as it was, and a set or a get changes the value under
\* no other fingerprint.
C14_Step ==
  /\ (Calls("set") /\ CalledKey \in KeysOf(cache)) =>
       /\ Len(cache'.entries) = Len(cache.entries)
       /\ KeysOf(cache') = KeysOf(cache)
       /\ StoredValue(cache', CalledKey)
            = CacheValue(directCall'.videoId, directCall'.lang, now)
  /\ (Calls("set") \/ Calls("get")) =>
       \A k \in KeysOf(cache') \ {CalledKey} :
         /\ k \in KeysOf(cache)
         /\ StoredValue(cache', k) = StoredValue(cache, k)

KeyOrder(c) == [i \in 1..Len(c.entries) |-> c.entries[i].key]

\* The entries of the cache without the one of the key, in their order.
EntriesWithout(c, key) == SelectSeq(c.entries, LAMBDA e : e.key # key)

\* A get that hits moves its entry behind all others and leaves these in
\* their order and as old as they were; the set of a new fingerprint into a
\* full cache takes out the first entry of the order.
C32_HitStep ==
  /\ (Calls("get") /\ directResult'[1] # << >>) =>
       /\ Len(cache'.entries) = Len(cache.entries)
       /\ cache'.entries[Len(cache'.entries)].key = CalledKey
       /\ EntriesWithout(cache', CalledKey) = EntriesWithout(cache, CalledKey)
  /\ (Calls("set") /\ CalledKey \notin KeysOf(cache)
                   /\ Len(cache.entries) = cache.max) =>
       KeyOrder(cache') = Append(Tail(KeyOrder(cache)), CalledKey)

\* A get that misses leaves the cache as it was.
C32_AnyMissStep ==
  (Calls("get") /\ directResult'[1] = << >>) => cache' = cache

\* A get that misses a fingerprint the cache does not hold leaves the cache
\* as it was; one that misses a stale entry removes that entry and leaves
\* the others in their order and as old as they were, the live entries
\* among them.
C32_MissStep ==
  (Calls("get") /\ directResult'[1] = << >>) =>
     /\ CalledKey \notin KeysOf(cache) => cache' = cache
     /\ cache'.entries = EntriesWithout(cache, CalledKey)
     /\ LiveContents(cache', now) = LiveContents(cache, now)

\* C32, as stated: a get that hits makes its entry the most recently used
\* (with maxSize = 2, after set F1, set F2, get F1, set F3 the evicted entry
\* is F2, and F1 and F3 are present); a get that misses changes neither the
\* contents nor the eviction order.
C32_GetRefreshesRecency == [][C32_HitStep /\ C32_AnyMissStep]_vars

\* C32, with the miss told apart: a get of a fingerprint that was never
\* stored, or was deleted or evicted, changes nothing; a get of an entry
\* older than the ttl removes it, which frees its place for the next set.
C32_GetRefreshesRecencyOrPurges == [][C32_HitStep /\ C32_MissStep]_vars

\* maxSize = 2: F1 was set at 0 and found by a get one ttl later, after F2
\* had been set; the set of F3 has just taken out F2 and left F1 and F3.
C32_Witness ==
  /\ cache.max = 2
  /\ now = TtlMs(cache)
  /\ directCall = [method |-> "set", videoId |-> VidB, lang |-> << >>]
  /\ directResult = << [held |-> FALSE, dropped |-> {Fingerprint(VidA, << LangEn >>)}] >>
  /\ cacheUse = << [key |-> Fingerprint(VidA, << >>), setAt |-> 0, touchedAt |-> now],
                   [key |-> Fingerprint(VidB, << >>), setAt |-> now, touchedAt |-> now] >>
  /\ KeyOrder(cache) = << Fingerprint(VidA, << >>), Fingerprint(VidB, << >>) >>

\* ---------------------------------------------------------- report claims

\* The positions of the rows with a property.
SuccessAt(rows) == { i \in 1..Len(rows) : rows[i].success }

FailureAt(rows) == { i \in 1..Len(rows) : ~rows[i].success }

CountedAt(rows) == { i \in SuccessAt(rows) : rows[i].transcript # << >> }

RECURSIVE SumOver(_, _)
SumOver(f, S) ==
  IF S = {} THEN 0
  ELSE LET x == CHOOSE y \in S : TRUE IN f[x] + SumOver(f, S \ {x})

\* C16: the report of a result list has total = its length, successful and
\* failed = the numbers of success and failure rows, successRate = 100 *
\* successful / total (0 for the empty list), a histogram that counts per
\* language the success rows with a transcript in it, errors = the failure
\* rows in their order, and averageDuration = totalDuration / successful (0
\* when successful is 0).
C16_Report ==
  directCall.method = "generateReport" =>
    LET rows   == directCall.results
        report == directResult[1]
    IN /\ report.total = Len(rows)
       /\ report.successful = Cardinality(SuccessAt(rows))
       /\ report.failed = Cardinality(FailureAt(rows))
       /\ report.successful + report.failed = report.total
       /\ report.successRate.num * report.total
            = 100 * report.successful * report.successRate.den
       /\ report.total = 0 => report.successRate.num = 0
       /\ \A l \in DOMAIN report.languages :
            report.languages[l] =
              Cardinality({ i \in CountedAt(rows) : rows[i].transcript[1].language = l })
       /\ \A i \in CountedAt(rows) :
            rows[i].transcript[1].language \in DOMAIN report.languages
       /\ SumOver(report.languages, DOMAIN report.languages)
            = Cardinality(CountedAt(rows))
       /\ Len(report.errors) = Cardinality(FailureAt(rows))
       /\ \A k \in 1..Len(report.errors) :
            \E i \in FailureAt(rows) :
              /\ Cardinality({ j \in FailureAt(rows) : j <= i }) = k
              /\ report.errors[k].videoId = rows[i].videoId
              /\ rows[i].error # << >> => report.errors[k].error = rows[i].error[1]
       /\ report.averageDuration.num * report.successful
            = report.totalDuration * report.averageDuration.den
       /\ report.successful = 0 => report.averageDuration.num = 0
       /\ report.successRate.den > 0 /\ report.averageDuration.den > 0

\* A call of generateReport leaves the services as they were.
C16_NoSideEffect ==
  directCall'.method = "generateReport" =>
    UNCHANGED << bulkVars, rlVars, exVars, tsVars >>

C16_ReportAggregates == []C16_Report /\ [][C16_NoSideEffect]_vars

\* The report of a failure row with a transcript followed by a success row
\* with a transcript of 3 seconds: only the success row is counted.
C16_Witness ==
  /\ directCall.method = "generateReport"
  /\ directCall.results =
       << [videoId |-> VidA, success |-> FALSE,
           transcript |-> << [language |-> "fr", duration |-> << >>] >>,
           error |-> << "Video is private" >>],
          [videoId |-> VidB, success |-> TRUE,
           transcript |-> << [language |-> "en", duration |-> << 3 >>] >>,
           error |-> << >>] >>
  /\ directResult[1].languages = [l \in {"en"} |-> 1]
  /\ directResult[1].successRate = Quotient(100, 2)
  /\ directResult[1].averageDuration = Quotient(3, 1)
  /\ directResult[1].errors = << [videoId |-> VidA, error |-> "Video is private"] >>

\* ------------------------------------------------- overlapping extractions

\* The entries the cache holds under the key.
EntriesUnder(cch, key) == { i \in 1..Len(cch.entries) : cch.entries[i].key = key }

\* Every call that is past the rate limiter has issued a page GET of its
\* own, and the cache holds at most one entry per key.
C20_OwnFetches ==
  /\ \A c \in Extracting : ex[c].pageFetches >= 1
  /\ \A i \in 1..Len(cache.entries) :
       EntriesUnder(cache, cache.entries[i].key) = {i}

\* A call the rate limiter lets go fetches the page whatever the cache holds
\* by then; a call that resolves after a fetch returns the Transcript of
\* that fetch, made now, and the cache then holds that Transcript, and no
\* other, under the call's fingerprint.
C20_Step ==
  \A c \in DOMAIN ex :
    /\ (ex[c].pc = "waiting" /\ ex'[c].pc # "waiting") =>
         /\ ex'[c].pc = "page"
         /\ ex'[c].pageFetches = 1
    /\ (ex[c].pc \in {"page", "segments"} /\ ex'[c].pc = "resolved") =>
         LET key == Fingerprint(ex[c].videoId, ex[c].lang)
         IN /\ returned'.call = c
            /\ returned'.pageFetches >= 1
            /\ returned'.result # << >>
            /\ returned'.result[1].fetchedAt = now
            /\ ExtractedFor(returned'.result[1], ex[c].videoId, ex[c].lang, now)
            /\ Cardinality(EntriesUnder(cache', key)) = 1
            /\ StoredValue(cache', key) = returned'.result[1]

\* C20: calls for one fingerprint that overlap while the cache is cold are
\* not coalesced: each fetches the page itself and gets the Transcript of
\* its own fetch, and the cache holds one entry for the fingerprint, the
\* Transcript of the call that completed last.
C20_NotCoalesced == []C20_OwnFetches /\ [][C20_Step]_vars

\* The first call has resolved and the cache holds its Transcript, while
\* the second call, made for the same fingerprint before that, has its own
\* page GET under way.
C20_Witness ==
  /\ rl.calls[1].pc = "settled"
  /\ ex[1].pc = "resolved"
  /\ ex[2].pc = "page"
  /\ ex[2].pageFetches >= 1
  /\ HoldsLive(cache, Fingerprint(ex[2].videoId, ex[2].lang), now)

\* ------------------------------------------- YouTubeTranscriptService claims

\* The ids the bulk request names, taken out of their URLs.
CleanIds == [i \in 1..Len(bulkCall.request.videoIds) |->
               extractVideoId(bulkCall.request.videoIds[i])]

\* How many elements of the sequence are about the video.
About(s, videoId) == Cardinality({ i \in 1..Len(s) : s[i].videoId = videoId })

\* The videos of the bulk request that the loop has dealt with.
BulkDone ==
  CASE bulkCall.pc = "idle"     -> 0
    [] bulkCall.pc = "fetching" -> bulkCall.index - 1
    [] bulkCall.pc = "delaying" -> bulkCall.index
    [] bulkCall.pc = "resolved" -> Len(bulkCall.request.videoIds)

\* C21: getBulkTranscripts never rejects and gives every entry of the input
\* list exactly one element, in results or in errors, whichever fetches fail:
\* while it runs, the two lists together hold one element for each video
\* dealt with so far and for no other; it settles only by resolving, after
\* the last entry, and then summary.total is the number of input ids,
\* summary.successful the length of results, summary.failed the length of
\* errors, and successful + failed = total.
C21_BulkOnePerInput ==
  /\ bulkCall.pc \in {"idle", "fetching", "delaying", "resolved"}
  /\ bulkCall.pc # "idle" =>
       /\ Len(bulkCall.results) + Len(bulkCall.errors) = BulkDone
       /\ \A v \in Range(CleanIds) :
            About(bulkCall.results, v) + About(bulkCall.errors, v)
              = Cardinality({ i \in 1..BulkDone : CleanIds[i] = v })
  /\ bulkCall.pc = "resolved" =>
       /\ bulkCall.index = Len(bulkCall.request.videoIds) + 1
       /\ bulkCall.response # << >>
       /\ LET r == bulkCall.response[1]
          IN /\ r.summary.total = Len(bulkCall.request.videoIds)
             /\ r.summary.successful = Len(r.results)
             /\ r.summary.failed = Len(r.errors)
             /\ r.summary.successful + r.summary.failed = r.summary.total
             /\ r.results = bulkCall.results
             /\ r.errors = bulkCall.errors

\* A request whose first video failed and whose second one succeeded has
\* resolved.
C21_Witness ==
  /\ bulkCall.pc = "resolved"
  /\ bulkCall.request.videoIds = << VidShort, VidA >>
  /\ bulkCall.response[1].summary = [total |-> 2, successful |-> 1, failed |-> 1]
  /\ bulkCall.response[1].errors[1].videoId = VidShort
  /\ bulkCall.response[1].errors[1].error = "Video not found"
  /\ bulkCall.response[1].results[1].videoId = VidA

\* The cache key of a getTranscript call.
KeyOfCall(call) ==
  cacheKey(extractVideoId(call.videoId), call.language, call.format)

\* The calls that have returned after their fetch was rejected, and those
\* that have returned a transcript they fetched.
FailedCalls ==
  { c \in DOMAIN getCalls : /\ getCalls[c].pc = "returned"
                            /\ getCalls[c].fetched # << >>
                            /\ getCalls[c].fetched[1].kind # "resolved" }

SucceededCalls ==
  { c \in DOMAIN getCalls : /\ getCalls[c].pc = "returned"
                            /\ getCalls[c].fetched # << >>
                            /\ getCalls[c].response[1].metadata.error = << >> }

\* A getTranscript call whose fetch was rejected has returned the error
\* response: title 'Error', no transcript, metadata.error the message.
C22_ErrorResponses ==
  /\ \A c \in DOMAIN getCalls :
       /\ getCalls[c].pc \in {"new", "fetching", "returned"}
       /\ getCalls[c].pc = "returned" <=> getCalls[c].response # << >>
  /\ \A c \in FailedCalls :
       LET r == getCalls[c].response[1]
       IN /\ r.title = "Error"
          /\ r.transcript = << >>
          /\ r.videoId = extractVideoId(getCalls[c].videoId)
          /\ r.metadata.error = << getCalls[c].fetched[1].message >>

\* The rejection of a fetch leaves the cache as it is, and a call made after
\* it for the same key, no other call having stored a response for that key,
\* calls the fetcher.
C22_FailureStep ==
  \A c \in DOMAIN getCalls :
    /\ c \in FailedCalls' \ FailedCalls => transcriptCache' = transcriptCache
    /\ ( /\ getCalls[c].pc = "new"
         /\ getCalls'[c].pc # "new"
         /\ \E d \in FailedCalls : KeyOfCall(getCalls[d]) = KeyOfCall(getCalls'[c])
         /\ \A d \in SucceededCalls : KeyOfCall(getCalls[d]) # KeyOfCall(getCalls'[c]) )
       => /\ getCalls'[c].pc = "fetching"
          /\ fetcherCalls' =
               Append(fetcherCalls,
                      [videoId |-> extractVideoId(getCalls'[c].videoId),
                       lang    |-> getCalls'[c].language])

\* C22: getTranscript never rejects; when the fetch fails it returns a
\* response with title 'Error', an empty transcript and metadata.error set to
\* the failure message, and writes nothing to the cache, so that a later call
\* for the same video, language and format fetches again.
C22_FailureNotCached == []C22_ErrorResponses /\ [][C22_FailureStep]_vars

\* After a call whose fetch failed, a second call for the same video,
\* language and format, passed as a URL, has fetched again and succeeded.
C22_Witness ==
  /\ transcriptCache.enabled
  /\ 1 \in FailedCalls
  /\ getCalls[1].videoId = VidA
  /\ getCalls[1].response[1].metadata.extractedAt = 0
  /\ getCalls[2].videoId = UrlA
  /\ 2 \in SucceededCalls
  /\ getCalls[2].response[1].metadata.extractedAt = MsPerSecond
  /\ fetcherCalls = << [videoId |-> VidA, lang |-> LangEn],
                       [videoId |-> VidA, lang |-> LangEn] >>

\* The entry the cache holds under the key of the call and has not expired:
\* its position in data, 0 when there is none.
LiveEntry(c, call, t) ==
  LET i == IndexOfData(c.data, KeyOfCall(call))
  IN IF c.enabled /\ i # 0 /\ ~Expired(c.data[i], t) THEN i ELSE 0

\* A call that returns the transcript it fetched leaves that response in the
\* cache, under its key.
C23_SuccessIsStored ==
  \A c \in SucceededCalls' \ SucceededCalls :
    LET i == LiveEntry(transcriptCache', getCalls'[c], now)
    IN /\ i # 0
       /\ transcriptCache'.data[i].v = getCalls'[c].response[1]

\* A call made while the cache holds a live entry under its key returns that
\* entry, extractedAt included, and the fetcher is not called.
C23_HitStep ==
  \A c \in DOMAIN getCalls :
    LET i == LiveEntry(transcriptCache, getCalls'[c], now)
    IN getCalls[c].pc = "new" /\ getCalls'[c].pc # "new" /\ i # 0
         => /\ getCalls'[c].pc = "returned"
            /\ getCalls'[c].response = << transcriptCache.data[i].v >>
            /\ getCalls'[c].fetched = << >>
            /\ fetcherCalls' = fetcherCalls
            /\ \E d \in SucceededCalls :
                 /\ KeyOfCall(getCalls[d]) = KeyOfCall(getCalls'[c])
                 /\ getCalls[d].response[1].metadata.extractedAt
                      = getCalls'[c].response[1].metadata.extractedAt

\* C23 as claimed: every successful getTranscript leaves its response in the
\* cache, so that a second call with the same arguments returns the cached
\* response without calling the fetcher again.
C23_RepeatIsCached == [][C23_SuccessIsStored /\ C23_HitStep]_vars

\* C23, amended: with the cache enabled, a successful getTranscript leaves
\* its response in the cache, and a call with the same video, language and
\* format made while that entry is there returns it (same extractedAt)
\* without calling the fetcher.
C23_RepeatIsCachedWhenEnabled ==
  [][(transcriptCache.enabled => C23_SuccessIsStored) /\ C23_HitStep]_vars

\* A second later, a second call with the same arguments has returned the
\* response of the first without a second fetch.
C23_Witness ==
  /\ now = MsPerSecond
  /\ 1 \in SucceededCalls
  /\ getCalls[1].response[1].metadata.extractedAt = 0
  /\ getCalls[2].pc = "returned"
  /\ getCalls[2].fetched = << >>
  /\ getCalls[2].videoId = getCalls[1].videoId
  /\ getCalls[2].language = getCalls[1].language
  /\ getCalls[2].format = getCalls[1].format
  /\ getCalls[2].response = getCalls[1].response
  /\ Len(fetcherCalls) = 1

\* The calls whose fetchTranscript promise resolves in this step.
FetchResolving ==
  { c \in DOMAIN getCalls :
      /\ getCalls[c].pc = "fetching"
      /\ getCalls'[c].pc = "returned"
      /\ getCalls'[c].fetched # << >>
      /\ getCalls'[c].fetched[1].kind = "resolved" }

\* C35: getTranscript returns the fetched transcript whenever the fetch
\* succeeds, however many entries the cache already holds: the response
\* carries the transcript and no error, and a cache that is enabled holds it
\* afterwards, within its maxSize.
C35_FetchedStep ==
  \A c \in FetchResolving :
    LET response == getCalls'[c].response[1]
    IN /\ response.metadata.error = << >>
       /\ response.title # "Error"
       /\ response.transcript = ToTranscript(getCalls'[c].fetched[1].data)
       /\ transcriptCache.enabled =>
            /\ LiveEntry(transcriptCache', getCalls'[c], now) # 0
            /\ Len(transcriptCache'.data) <= transcriptCache.maxKeys

C35_FullCacheStillReturnsFetched == [][C35_FetchedStep]_vars

\* The entry a call finds under its key when it is made, 0 for none.
EntryFound(c) ==
  IF transcriptCache.enabled
    THEN IndexOfData(transcriptCache.data, KeyOfCall(getCalls'[c]))
    ELSE 0

\* C36: an entry stored without a ttl argument expires after the ttl given to
\* the Cache constructor: a getTranscript call made more than that time after
\* the response under its key was stored does not get it from the cache, and
\* asks the fetcher.
C36_ExpiryStep ==
  \A c \in DOMAIN getCalls :
    ( /\ getCalls[c].pc = "new"
      /\ getCalls'[c].pc # "new"
      /\ EntryFound(c) # 0
      /\ now - transcriptCache.data[EntryFound(c)].v.metadata.extractedAt
           > transcriptCache.stdTTL * MsPerSecond )
    => /\ getCalls'[c].pc = "fetching"
       /\ getCalls'[c].response = << >>

C36_EntriesExpireAfterStdTtl == [][C36_ExpiryStep]_vars

\* ------------------------------------------------------ HTTP transport claims

\* The window and the limit the middleware works with.
WindowMsInUse == OrNumber(httpConfig[1].windowMs, DefaultWindowMs)
MaxInUse == OrNumber(httpConfig[1].max, DefaultMax)

\* The requests of the log that went through to next().
Accepted(log) == { i \in 1..Len(log) : log[i].next }

\* The accepted requests that are less than windowMs old at time t.
AcceptedWithin(log, t) ==
  { i \in Accepted(log) : t - log[i].at < WindowMsInUse }

HttpTimes == 0..MaxHttpMs

\* No windowMs milliseconds, wherever they start, see more than max requests
\* go through, and every recorded timestamp is the time of an accepted
\* request.
C37_WindowState ==
  httpConfig # << >> =>
    /\ \A a \in HttpTimes :
         Cardinality({ i \in Accepted(httpLog) :
                         a <= httpLog[i].at /\ httpLog[i].at < a + WindowMsInUse })
           <= MaxInUse
    /\ \A k \in 1..Len(requestTimestamps) :
         \E i \in Accepted(httpLog) : httpLog[i].at = requestTimestamps[k]

\* A request is answered 429 exactly when max accepted requests are less
\* than windowMs old, whatever was rejected in between, and is then not
\* recorded; any other request is recorded and goes on to next().
C37_RequestStep ==
  (httpConfig # << >> /\ Len(httpLog') = Len(httpLog) + 1) =>
    LET r      == httpLog'[Len(httpLog')]
        recent == Cardinality(AcceptedWithin(httpLog, now))
    IN IF recent >= MaxInUse
         THEN /\ r.status = 429
              /\ ~r.next
              /\ Len(requestTimestamps') = recent
              /\ \A k \in 1..Len(requestTimestamps') : requestTimestamps'[k] # now
                     \/ \E i \in Accepted(httpLog) : httpLog[i].at = now
         ELSE /\ r.status # 429
              /\ r.next
              /\ Len(requestTimestamps') = recent + 1
              /\ requestTimestamps'[recent + 1] = now

\* C37: rateLimitMiddleware lets at most max requests through to next() in
\* any interval of windowMs; a request that arrives while max accepted
\* timestamps lie within the last windowMs is answered with 429 and is not
\* recorded, so that rejected requests do not put off the next acceptance.
C37_SlidingWindowLimit == []C37_WindowState /\ [][C37_RequestStep]_vars

\* max = 1: a request is accepted, later ones are rejected, and the request
\* that arrives windowMs after the accepted one goes through.
C37_Witness ==
  /\ httpConfig # << >>
  /\ MaxInUse = 1
  /\ \E i, j, k \in 1..Len(httpLog) :
       /\ i < j /\ j < k
       /\ httpLog[i].next
       /\ httpLog[j].status = 429
       /\ httpLog[j].at > httpLog[i].at
       /\ httpLog[k].next
       /\ httpLog[k].at = httpLog[i].at + WindowMsInUse

\* ------------------------------------------------------------ server claims

\* The failover() calls that return in this step.
Returning ==
  { f \in 1..Len(failovers') :
      /\ failovers'[f].pc = "done"
      /\ f \in 1..Len(failovers) => failovers[f].pc # "done" }

\* The events the server emits in this step.
NewEvents == { emitted'[i] : i \in (Len(emitted) + 1)..Len(emitted') }

\* The transports whose start() failed in this failover() call.
StartFailed(f) ==
  { r.name : r \in { x \in failovers'[f].failed : x.why \in {"started", "listen"} } }

\* The transports this failover() call gave up for a reason that lies
\* outside the server: server.connect rejected or listen() failed.
BrokeDown(f) ==
  { r.name : r \in { x \in failovers'[f].failed : x.why \in {"connect", "listen"} } }

\* A failover() that returns has either emitted 'failover' for a transport
\* that is now active and started, or emitted 'error', and then no other
\* registered transport is available that has not broken down, and
\* activeTransport names no transport whose start failed.
C38_FailoverStep ==
  \A f \in Returning :
    \/ /\ \E n \in Registered \ {failovers'[f].from} :
             /\ FailoverEvent(n) \in NewEvents
             /\ activeTransport' = << n >>
             /\ transports'[IndexOfTransport(n)].started
       /\ AllFailedEvent \notin NewEvents
    \/ /\ AllFailedEvent \in NewEvents
       /\ \A i \in 1..Len(transports') :
            ( /\ transports'[i].name # failovers'[f].from
              /\ isAvailable(transports'[i], stdinPiped) )
            => transports'[i].name \in BrokeDown(f)
       /\ \A n \in StartFailed(f) : activeTransport' # << n >>

\* C38: when the active transport emits 'close' and another registered
\* transport reports isAvailable(), the server fails over: that transport
\* becomes activeTransport, is connected and started, and 'failover' is
\* emitted.  Only when no other registered transport is available does the
\* server emit 'error' with 'All transports failed', and activeTransport then
\* names no transport whose start failed.
C38_FailsOverToAvailable == [][C38_FailoverStep]_vars

\* ------------------------------------------------- default options claims

\* C24: a CacheService constructed with no options has a time to live of
\* 3600 seconds, as one constructed with ttl: 3600 has: get does not return
\* an entry that was set more than 3600 seconds ago and not read since.
C24_DefaultTtlStep ==
  ( /\ Calls("get")
    /\ CalledKey \in UsedKeys
    /\ UseOf(cacheUse, CalledKey).touchedAt = UseOf(cacheUse, CalledKey).setAt
    /\ now - UseOf(cacheUse, CalledKey).setAt > DocumentedTtl * MsPerSecond )
  => directResult' = << << >> >>

C24_DefaultTtlIsOneHour == [][C24_DefaultTtlStep]_vars

====
